---------------------------- MODULE Spec2Model ----------------------------
(***************************************************************************)
(* Model of the preview build server: the POST /build route                *)
(* (src/src/routes/build.js), the file-system helpers and the retention    *)
(* sweeper (src/unnamed/part_002, the repository's utils/fileSystem.js),   *)
(* and the build service (src/src/services/buildService.js).               *)
(*                                                                         *)
(* The specifications of the module:                                       *)
(*   Spec       the route, the workspace root and the sweeper;             *)
(*   SpecTwo    two requests in progress at once, no sweep;                *)
(*   SpecOne    one request, no sweep, under every configured file limit;  *)
(*   SpecSweep  the sweeper alone, with its scheduling (fairness);         *)
(*   SpecBuild  one invocation of the exported runBuild, with the          *)
(*              runCommand state machine of every command it spawns;       *)
(*   SpecCommand  one invocation of runCommand with its captured output;   *)
(*   SpecTimed  runBuild with the elapsed time of each command's timer;    *)
(*   SpecClassify  the entry of runBuild (detectProjectType) over every    *)
(*              workspace content it distinguishes;                        *)
(*   SpecHealth  GET /health (src/unnamed/part_000, routes/health.js)      *)
(*              over every host it can read;                               *)
(*   SpecInject  runBuild of the variant that injects the preview's base   *)
(*              URL (src/unnamed/part_001) over every pair of              *)
(*              configuration files.                                       *)
(* The route never enters runBuild: build.js line 83 evaluates the         *)
(* undeclared identifier `id` while building the call's arguments, which   *)
(* throws a ReferenceError inside the try block.  runBuild and             *)
(* installDependencies are therefore modelled at their own entry points.   *)
(***************************************************************************)
EXTENDS Integers, Sequences, FiniteSets, TLC

(***************************************************************************)
(* Bounds of the model.                                                    *)
(***************************************************************************)
MaxTime == 2          \* clock ticks explored
MaxAgeMs == 2         \* config.previewMaxAgeMs is drawn from 1..MaxAgeMs
MaxFileBytes == 2     \* every staged file of a request has 1..MaxFileBytes units
MaxOutput == 2        \* data chunks a command writes to each of its streams
MaxTicks == 2         \* config.buildTimeoutMs in ticks of a command's timer
MaxFiles == 3         \* config.maxFiles is drawn from 1..MaxFiles

(***************************************************************************)
(* Program constants (sizes are in model units).                           *)
(***************************************************************************)
maxProjectSize == 3   \* config.maxProjectSize
schemaMaxKeys == 2    \* validation.js line 26: .max(100), the default of
                      \* config.maxFiles as well (config/index.js line 84)

diskCeiling == 90     \* build.js line 28: diskSpace.usagePercent > 90

healthCeiling == 95   \* health.js line 67: diskSpace.usagePercent < 95

Projects == {"p1", "p2"}            \* nanoid() values, one per request
Files == {"package.json", "src/main.jsx"}   \* files inside a workspace
Stray == ".gitkeep"                 \* a non-directory entry of the previews root
NoText == ""
NoDir ==
  [exists |-> FALSE, mtime |-> 0, content |-> {},
   data |-> [f \in Files |-> NoText]]
NoError == [kind |-> "none", status |-> 0]

(***************************************************************************)
(* Paths.  A key of the payload's file map is a string; Split gives its    *)
(* segments between '/' (a leading empty segment is the root).             *)
(***************************************************************************)
Keys ==
  {"package.json", "src/main.jsx", "./package.json", "../p2/package.json",
   "/etc/passwd"}

Split(k) ==
  CASE k = "package.json" -> <<"package.json">>
    [] k = "src/main.jsx" -> <<"src", "main.jsx">>
    [] k = "./package.json" -> <<".", "package.json">>
    [] k = "../p2/package.json" -> <<"..", "p2", "package.json">>
    [] k = "/etc/passwd" -> <<"", "etc", "passwd">>
    [] k = "etc/passwd" -> <<"etc", "passwd">>

\* The spelling of a sequence of segments.
Spelled(segs) ==
  CHOOSE k \in Keys \cup {"etc/passwd"} : Split(k) = segs

\* path.normalize on segments (posix): '.' and empty segments go, 'x/..'
\* cancels, '..' at the root goes, a leading '..' of a relative path stays.
RECURSIVE NormalizeSegs(_, _)
NormalizeSegs(out, segs) ==
  IF segs = <<>> THEN out
  ELSE LET s == Head(segs)
           rest == Tail(segs)
           top == IF out = <<>> THEN "none" ELSE out[Len(out)]
       IN  IF s = "." \/ (s = "" /\ out # <<>>)
           THEN NormalizeSegs(out, rest)
           ELSE IF s = ".." /\ top = ""
           THEN NormalizeSegs(out, rest)
           ELSE IF s = ".." /\ top \notin {"none", ".."}
           THEN NormalizeSegs(SubSeq(out, 1, Len(out) - 1), rest)
           ELSE NormalizeSegs(Append(out, s), rest)

normalize(k) == Spelled(NormalizeSegs(<<>>, Split(k)))
isAbsolute(k) == Split(k)[1] = "" /\ Len(Split(k)) > 1
includesDotDot(k) == \E i \in DOMAIN Split(k) : Split(k)[i] = ".."
includesSlash(k) == Len(Split(k)) > 1

\* config.previewsDir, an absolute path.
previewsDir == <<"", "previews">>

\* build.js line 64: path.join(projectDir, filePath), as segments.
FullPath(p, k) == NormalizeSegs(<<>>, previewsDir \o <<p>> \o Split(k))

\* The workspace a full path lies in, and the file's name relative to it.
WorkspaceOf(full) == full[Len(previewsDir) + 1]
RelativeName(full) == Spelled(SubSeq(full, Len(previewsDir) + 2, Len(full)))

\* path.dirname(filePath) is the workspace itself or a directory below it.
IsNested(f) == Len(Split(f)) > 1
ParentEntry(f) == Split(f)[1]

VARIABLES
  now,          \* Date.now(), in ticks
  config,       \* the configuration read at start-up
  dirs,         \* previews root: project id -> directory state
  req,          \* POST /build handlers, by the project id each would allocate
  wst,          \* req's write promises: project id -> file -> state
  sweep,        \* cleanupOldPreviews invocations, by sweeper
  lastSwept,    \* history: the latest removal a sweep performed
  job,          \* runBuild invocation (SpecBuild)
  cmds,         \* runCommand invocations, in spawn order (SpecBuild)
  health,       \* GET /health handler and the host it reads (SpecHealth)
  inject        \* runBuild of the base-URL variant (SpecInject)

vars == <<now, config, dirs, req, wst, sweep, lastSwept, job, cmds, health,
         inject>>
routeVars == <<dirs, req, wst, sweep, lastSwept>>
buildVars == <<job, cmds>>
otherVars == <<health, inject>>

PackageManagers == {"pnpm", "npm", "yarn"}

(***************************************************************************)
(* config (utils/logger.js lines 71-106 hold config/index.js):             *)
(* parseInt(env) || default never yields 0, so the max age is positive.    *)
(* hostStatfs tells whether fs.statfs works on the host for previewsDir.   *)
(***************************************************************************)
Configs ==
  [previewMaxAgeMs : 1..MaxAgeMs, packageManager : PackageManagers,
   hostStatfs : BOOLEAN, maxFiles : {schemaMaxKeys}]

\* The same with MAX_FILES set in the environment: parseInt(env) || 100
\* yields the number given, or the default for 0 or no number.
ConfigsWithMaxFiles ==
  [previewMaxAgeMs : 1..MaxAgeMs, packageManager : PackageManagers,
   hostStatfs : BOOLEAN, maxFiles : 1..MaxFiles]


(***************************************************************************)
(* Errors.  AppError carries a statusCode; every other Error has none and  *)
(* errorHandler answers it with 500.                                       *)
(***************************************************************************)
AppError(kind, statusCode) == [kind |-> kind, status |-> statusCode]
PlainError(kind) == [kind |-> kind, status |-> 0]

\* errorHandler: const statusCode = error.statusCode || 500
errorHandler(err) == IF err.status = 0 THEN 500 ELSE err.status

\* errorHandler.js lines 66-83: the body of every error answer; next to
\* success it holds the message, a timestamp and the request id.
errorResponse(err) == [success |-> FALSE, status |-> errorHandler(err)]

NewReq ==
  [pc |-> "new", statfs |-> [ok |-> FALSE, blocks |-> 0, bavail |-> 0],
   files |-> {}, bytes |-> 0, projectDir |-> FALSE,
   error |-> NoError, status |-> 0, passedSize |-> FALSE,
   cleanupFailed |-> FALSE]

\* What a call has returned to its caller: nothing yet, or undefined, or
\* a number.
NoValue == [defined |-> FALSE, value |-> 0]
Number(n) == [defined |-> TRUE, value |-> n]

\* deleted is history: the directories this invocation's fs.rm found in
\* place and removed.
IdleSweep ==
  [pc |-> "idle", todo |-> {}, listed |-> {}, now0 |-> 0, target |-> "",
   ageMs |-> 0, cleanedCount |-> 0, failed |-> {}, vanished |-> {},
   deleted |-> {}, returned |-> NoValue]

NoRemoval ==
  [name |-> "", isDirectory |-> FALSE, ageMs |-> 0, ownerPc |-> "",
   ownerWrites |-> FALSE]

(***************************************************************************)
(* File-system primitives on one workspace directory.                      *)
(***************************************************************************)
\* fs.mkdir(dir, {recursive: true}) of the directory that will hold file f:
\* the project directory itself, or its src/ subdirectory.  Missing
\* parents are created; a directory that exists is left alone.
MkdirFor(d, f, t) ==
  LET c == IF IsNested(f) THEN d.content \cup {ParentEntry(f)} ELSE d.content
  IN  [d EXCEPT !.exists = TRUE,
                !.mtime = IF ~d.exists \/ c # d.content THEN t ELSE d.mtime,
                !.content = c]

\* fs.writeFile needs the parent directory of f.
ParentExists(d, f) ==
  d.exists /\ (IsNested(f) => ParentEntry(f) \in d.content)

\* fs.writeFile(f, text): the file now holds text, whatever it held; a new
\* top-level entry changes the directory's mtime.
WriteInto(d, f, text, t) ==
  [d EXCEPT !.content = @ \cup {f},
            !.data = [g \in DOMAIN @ |-> IF g = f THEN text ELSE @[g]],
            !.mtime = IF ~IsNested(f) /\ f \notin d.content THEN t ELSE @]

\* getDirectorySize: the sum of the file sizes; 0 when readdir throws.
getDirectorySize(d, bytes) ==
  IF d.exists THEN bytes * Cardinality(d.content \cap Files) ELSE 0

\* build.js line 83: `runBuild(projectDir, id)`; `id` is declared nowhere
\* in the module, so evaluating the arguments throws before the call.
RunBuildCall == PlainError("ReferenceError")

(***************************************************************************)
(* POST /build (routes/build.js).                                          *)
(***************************************************************************)
\* fs.statfs(config.previewsDir): it throws where the host has no such
\* measurement, else it gives blocks and bavail (in blocks of bsize bytes).
NoStatfs == [ok |-> FALSE, blocks |-> 0, bavail |-> 0]
StatfsOutcomes ==
  IF ~config.hostStatfs THEN {NoStatfs}
  ELSE {[ok |-> TRUE, blocks |-> 100000, bavail |-> a] :
          a \in {11000, 10000, 9996, 9000}}

\* Math.round of the quotient n / d, for n >= 0 and d > 0.
MathRound(n, d) == (2 * n + d) \div (2 * d)

checkDiskSpaceFailsClosed(stats) ==
  [isNull |-> FALSE,
   usagePercent |-> IF stats.ok
                    THEN MathRound((stats.blocks - stats.bavail) * 10000,
                                   stats.blocks)
                    ELSE 100 * 100]

\* checkDiskSpace (fileSystem.js lines 206-224): null when statfs throws,
\* else usagePercent rounded to two decimals (kept here in hundredths).
checkDiskSpace(stats) ==
  IF ~stats.ok THEN [isNull |-> TRUE, usagePercent |-> 0]
  ELSE [isNull |-> FALSE,
        usagePercent |-> MathRound((stats.blocks - stats.bavail) * 10000,
                                   stats.blocks)]

DiskFullAtHundred(diskSpace) ==
  ~diskSpace.isNull /\ diskSpace.usagePercent > 100 * 100

\* build.js line 28: diskSpace && diskSpace.usagePercent > 90
DiskFull(diskSpace) ==
  ~diskSpace.isNull /\ diskSpace.usagePercent > diskCeiling * 100

(***************************************************************************)
(* The payload: the keys of req.body.files, and the value under each.      *)
(* A value is a string or an object.                                       *)
(***************************************************************************)
Bodies ==
  {{}, {"package.json"}, {"src/main.jsx"}, {"package.json", "src/main.jsx"},
   {"package.json", "./package.json"},
   {"package.json", "../p2/package.json"}, {"package.json", "/etc/passwd"},
   {"package.json", "src/main.jsx", "./package.json"}}

Value(k) ==
  CASE k = "package.json" -> [type |-> "object", body |-> "manifest"]
    [] k = "src/main.jsx" -> [type |-> "string", body |-> "jsx source"]
    [] k = "./package.json" -> [type |-> "string", body |-> "other manifest"]
    [] OTHER -> [type |-> "string", body |-> "intruder"]

\* JSON.stringify(content, null, 2)
JSONstringify(body) ==
  CASE body = "manifest" -> "manifest, as indented JSON"
    [] OTHER -> "[object]"

\* writeFileSecure line 106.
fileContent(content) ==
  IF content.type = "string" THEN content.body ELSE JSONstringify(content.body)

AnyFilePath(k) == TRUE

SafeFilePathWithoutDotDotTest(k) ==
  IF isAbsolute(k) THEN FALSE
  ELSE IF normalize(k) # k /\ ~includesSlash(k) THEN FALSE
  ELSE TRUE

\* validation.js lines 8-21: the custom rule on every key of files.
SafeFilePath(k) ==
  IF includesDotDot(k) \/ isAbsolute(k) THEN FALSE
  ELSE IF normalize(k) # k /\ ~includesSlash(k) THEN FALSE
  ELSE TRUE

\* buildPayloadSchema.validate: files is required, has at least one key,
\* and a key that fails the rule matches no pattern and is not allowed.
\* (The file sets drawn here stay below the limit of 100 keys, and every
\* value is a string below 1 MB or an object.)
SchemaErrorOnKeysOnly(body) == \E k \in body : ~SafeFilePath(k)

SchemaError(body) ==
  \/ body = {}
  \/ \E k \in body : ~SafeFilePath(k)
  \/ Cardinality(body) > schemaMaxKeys

\* validateProjectStructure (validation.js lines 43-63): one key must be,
\* literally, a main configuration file; every extension drawn is allowed.
hasMainConfig(body) == "package.json" \in body

\* Lines 28-51 on the request record r: the first failing check throws.
Rejection(r) ==
  IF DiskFull(checkDiskSpace(r.statfs)) THEN AppError("quota", 507)
  ELSE IF SchemaError(r.files) THEN AppError("validation", 400)
  ELSE IF ~hasMainConfig(r.files) THEN PlainError("structure")
  ELSE IF Cardinality(r.files) > config.maxFiles
  THEN AppError("tooManyFiles", 400)
  ELSE NoError

ValidatedAfterAllocation(r) ==
  IF Rejection(r) # NoError
  THEN [r EXCEPT !.pc = "cleanup", !.projectDir = TRUE,
                 !.error = Rejection(r), !.statfs = NoStatfs]
  ELSE [r EXCEPT !.pc = "mkdir", !.projectDir = TRUE, !.statfs = NoStatfs]

\* A rejection here finds projectDir null in the catch and goes straight
\* to next(error).  diskSpace is not read after line 28.
Validated(r) ==
  IF Rejection(r) # NoError
  THEN [r EXCEPT !.pc = "answered", !.error = Rejection(r),
                 !.status = errorHandler(Rejection(r)), !.statfs = NoStatfs]
  ELSE [r EXCEPT !.pc = "mkdir", !.projectDir = TRUE, !.statfs = NoStatfs]

\* Lines 14-27: the handler starts with the parsed body and awaits
\* checkDiskSpace().
Receive(p) ==
  /\ req[p].pc = "new"
  /\ \E stats \in StatfsOutcomes, body \in Bodies, b \in 1..MaxFileBytes :
       req' = [req EXCEPT ![p] =
                [@ EXCEPT !.pc = "validate", !.statfs = stats,
                          !.files = body, !.bytes = b]]
  /\ UNCHANGED <<now, config, dirs, wst, sweep, lastSwept, buildVars, otherVars>>

\* Lines 28-57: disk check, payload and structure validation, nanoid().
Validate(p) ==
  /\ req[p].pc = "validate"
  /\ req' = [req EXCEPT ![p] = Validated(@)]
  /\ UNCHANGED <<now, config, dirs, wst, sweep, lastSwept, buildVars, otherVars>>

\* Lines 59-66: await ensureDirectory(projectDir); then every
\* writeFileSecure is started at once (Object.entries(files).map).
EnsureProjectDir(p) ==
  /\ req[p].pc = "mkdir"
  /\ \E ok \in BOOLEAN :
       IF ok
       THEN /\ dirs' = [dirs EXCEPT ![p] =
                 [NoDir EXCEPT !.exists = TRUE, !.mtime = now]]
            /\ req' = [req EXCEPT ![p].pc = "staging"]
            /\ wst' = [wst EXCEPT ![p] =
                 [k \in Keys |-> IF k \in req[p].files THEN "mkdir" ELSE "none"]]
       ELSE /\ req' = [req EXCEPT ![p] =
                 [@ EXCEPT !.pc = "cleanup", !.error = PlainError("staging")]]
            /\ UNCHANGED <<dirs, wst>>
  /\ UNCHANGED <<now, config, sweep, lastSwept, buildVars, otherVars>>

\* Promise.all(writePromises) as seen by the handler after write f moved to
\* state s: rejected by the first failure, resolved once all are done.
AfterWrite(p, f, s) ==
  LET w == [wst[p] EXCEPT ![f] = s]
  IN  IF req[p].pc # "staging" THEN req[p]
      ELSE IF s = "failed"
           THEN [req[p] EXCEPT !.pc = "cleanup", !.error = PlainError("staging")]
      ELSE IF \A g \in req[p].files : w[g] = "done"
           THEN [req[p] EXCEPT !.pc = "size"]
      ELSE req[p]

\* writeFileSecure, first await: ensureDirectory(path.dirname(filePath)),
\* where filePath is path.join(projectDir, key).
WriteMkdir(p, k) ==
  /\ wst[p][k] = "mkdir"
  /\ \E ok \in BOOLEAN :
       IF ok
       THEN /\ dirs' = [dirs EXCEPT ![WorkspaceOf(FullPath(p, k))] =
                 MkdirFor(@, RelativeName(FullPath(p, k)), now)]
            /\ wst' = [wst EXCEPT ![p][k] = "write"]
            /\ req' = req
       ELSE /\ wst' = [wst EXCEPT ![p][k] = "failed"]
            /\ req' = [req EXCEPT ![p] = AfterWrite(p, k, "failed")]
            /\ dirs' = dirs
  /\ UNCHANGED <<now, config, sweep, lastSwept, buildVars, otherVars>>

\* writeFileSecure, second await: fs.writeFile(filePath, fileContent).
WriteFile(p, k) ==
  /\ wst[p][k] = "write"
  /\ LET q == WorkspaceOf(FullPath(p, k))
         f == RelativeName(FullPath(p, k))
     IN  \E ok \in BOOLEAN :
           IF ok /\ ParentExists(dirs[q], f)
           THEN /\ dirs' = [dirs EXCEPT ![q] =
                     WriteInto(@, f, fileContent(Value(k)), now)]
                /\ wst' = [wst EXCEPT ![p][k] = "done"]
                /\ req' = [req EXCEPT ![p] = AfterWrite(p, k, "done")]
           ELSE /\ wst' = [wst EXCEPT ![p][k] = "failed"]
                /\ req' = [req EXCEPT ![p] = AfterWrite(p, k, "failed")]
                /\ dirs' = dirs
  /\ UNCHANGED <<now, config, sweep, lastSwept, buildVars, otherVars>>

\* Lines 70-83: size check, then the runBuild call.
SizeCheck(p) ==
  /\ req[p].pc = "size"
  /\ LET projectSize == getDirectorySize(dirs[p], req[p].bytes)
     IN  IF projectSize > maxProjectSize
         THEN req' = [req EXCEPT ![p] =
                [@ EXCEPT !.pc = "cleanup", !.error = AppError("tooLarge", 413)]]
         ELSE req' = [req EXCEPT ![p] =
                [@ EXCEPT !.pc = "cleanup", !.passedSize = TRUE,
                          !.error = RunBuildCall]]
  /\ UNCHANGED <<now, config, dirs, wst, sweep, lastSwept, buildVars, otherVars>>

removeDirectoryLeavesTree(d, ok) == d

\* removeDirectory: fs.rm(dir, {recursive: true, force: true}); a missing
\* directory is no error; a failure leaves the tree and is rethrown.
removeDirectory(d, ok) == IF ok THEN NoDir ELSE d

RmOutcomesWithoutForce(d) == IF d.exists THEN BOOLEAN ELSE {FALSE}

\* With force: true a missing target is a success; an existing tree may
\* fail to go (EACCES, EBUSY, ENOTEMPTY).
RmOutcomes(d) == IF d.exists THEN BOOLEAN ELSE {TRUE}

HandedToNextOrCleanupError(error, ok) ==
  IF ok THEN error ELSE PlainError("cleanup")

\* Lines 124-133: cleanupError is caught and logged; next(error) receives
\* the error the outer catch was entered with.
HandedToNext(error, ok) == error

\* Lines 111-134: the catch block; a cleanup failure is logged, and the
\* original error goes to next(error), which errorHandler answers.
Cleanup(p) ==
  /\ req[p].pc = "cleanup"
  /\ \E ok \in RmOutcomes(dirs[p]) :
       /\ dirs' = [dirs EXCEPT ![p] = removeDirectory(@, ok)]
       /\ req' = [req EXCEPT ![p] =
            [@ EXCEPT !.pc = "answered", !.cleanupFailed = ~ok,
                      !.error = HandedToNext(req[p].error, ok),
                      !.status = errorHandler(HandedToNext(req[p].error, ok))]]
  /\ UNCHANGED <<now, config, wst, sweep, lastSwept, buildVars, otherVars>>

Tick ==
  /\ now < MaxTime
  /\ now' = now + 1
  /\ UNCHANGED <<config, routeVars, buildVars, otherVars>>


(***************************************************************************)
(* The retention sweeper: cleanupOldPreviews (fileSystem.js), started once *)
(* at start-up and then by setInterval (server.js setupCleanup).           *)
(***************************************************************************)
Sweepers == {"s1"}

isDirectory(e) == e \in Projects

ExpiredAtThreshold(ageMs, maxAgeMs) == ageMs >= maxAgeMs

\* Line 189: the age test.
Expired(ageMs, maxAgeMs) == ageMs > maxAgeMs

\* Lines 175-181: readdir of the previews root, then now = Date.now().
SweepStart(s) ==
  /\ sweep[s].pc \in {"idle", "done"}
  /\ LET entries == {p \in Projects : dirs[p].exists} \cup {Stray}
     IN  sweep' = [sweep EXCEPT ![s] =
           [IdleSweep EXCEPT !.pc = "loop", !.todo = entries,
                             !.listed = entries, !.now0 = now]]
  /\ UNCHANGED <<now, config, dirs, req, wst, lastSwept, buildVars, otherVars>>

\* Lines 183-189: one iteration up to the age test.  fs.stat of an entry
\* that has gone throws, and the outer catch ends the sweep.
SweepExamine(s, e) ==
  /\ sweep[s].pc = "loop"
  /\ e \in sweep[s].todo
  /\ IF ~isDirectory(e)
     THEN sweep' = [sweep EXCEPT ![s].todo = @ \ {e}]
     ELSE IF ~dirs[e].exists
     THEN sweep' = [sweep EXCEPT ![s].pc = "done", ![s].vanished = {e}]
     ELSE LET ageMs == sweep[s].now0 - dirs[e].mtime
          IN  IF Expired(ageMs, config.previewMaxAgeMs)
              THEN sweep' = [sweep EXCEPT ![s].pc = "remove", ![s].target = e,
                                          ![s].ageMs = ageMs]
              ELSE sweep' = [sweep EXCEPT ![s].todo = @ \ {e}]
  /\ UNCHANGED <<now, config, dirs, req, wst, lastSwept, buildVars, otherVars>>

\* Lines 190-192: await removeDirectory(dirPath); cleanedCount++.  A
\* failure is rethrown by removeDirectory and leaves the loop through the
\* outer catch (lines 200-202).
SweepRemove(s) ==
  /\ sweep[s].pc = "remove"
  /\ LET e == sweep[s].target
     IN  \E ok \in RmOutcomes(dirs[e]) :
           IF ok
           THEN /\ dirs' = [dirs EXCEPT ![e] = removeDirectory(@, TRUE)]
                /\ sweep' = [sweep EXCEPT ![s].pc = "loop", ![s].todo = @ \ {e},
                                          ![s].cleanedCount = @ + 1,
                                          ![s].deleted =
                                            IF dirs[e].exists THEN @ \cup {e}
                                            ELSE @]
                /\ lastSwept' =
                     [name |-> e, isDirectory |-> isDirectory(e),
                      ageMs |-> sweep[s].ageMs, ownerPc |-> req[e].pc,
                      ownerWrites |->
                        \E k \in Keys : wst[e][k] \in {"mkdir", "write"}]
           ELSE /\ sweep' = [sweep EXCEPT ![s].pc = "done", ![s].failed = {e}]
                /\ UNCHANGED <<dirs, lastSwept>>
  /\ UNCHANGED <<now, config, req, wst, buildVars, otherVars>>

\* cleanupOldPreviews has no return statement with a value: cleanedCount
\* is logged (lines 197-199) and the promise resolves to undefined.
SweepResult(cleanedCount) == NoValue

\* Lines 197-199: the loop is over.
SweepFinish(s) ==
  /\ sweep[s].pc = "loop"
  /\ sweep[s].todo = {}
  /\ sweep' = [sweep EXCEPT ![s].pc = "done",
                            ![s].returned = SweepResult(sweep[s].cleanedCount)]
  /\ UNCHANGED <<now, config, dirs, req, wst, lastSwept, buildVars, otherVars>>


(***************************************************************************)
(* runCommand (buildService.js lines 11-71).  One record per invocation:   *)
(*   child    running | exited (process gone, 'close' not yet emitted) |   *)
(*            closed | spawnError ('error' not yet emitted)                *)
(*   code     what 'close' reports: 0, 1, NoCode (ended by a signal) or    *)
(*            SpawnErrno (the spawn failed)                                *)
(*   kids     processes the shell started are alive in the workspace       *)
(*   timer    armed | cleared | fired                                      *)
(*   outcome  how the promise settled: pending | resolved | timeout |      *)
(*            exit | error.  A settled promise ignores later settlements.  *)
(*   stdout, stderr   the chunks captured so far, in order of arrival      *)
(*   detail   what the rejection's message carries after its fixed prefix  *)
(*   age      ticks since setTimeout armed the invocation's timer          *)
(***************************************************************************)
ProbeTimeoutMs == 5000
NoCode == -1
SpawnErrno == -2
ExitCodes == {0, 1, NoCode}
buildTimeoutMs == 300000

NewCommand(role, tool, timeoutMs, child) ==
  [role |-> role, tool |-> tool, timeoutMs |-> timeoutMs, child |-> child,
   code |-> NoCode, kids |-> FALSE, timer |-> "armed", isTimedOut |-> FALSE,
   killSent |-> FALSE, outcome |-> "pending",
   stdout |-> <<>>, stderr |-> <<>>, detail |-> <<>>, age |-> 0]

\* resolve / reject on the invocation's promise.
Settle(c, how) == IF c.outcome = "pending" THEN [c EXCEPT !.outcome = how] ELSE c

RejectOverwrites(c, how, detail) == [c EXCEPT !.outcome = how, !.detail = detail]

\* reject(new Error(prefix + detail))
Reject(c, how, detail) ==
  IF c.outcome = "pending"
  THEN [c EXCEPT !.outcome = how, !.detail = detail]
  ELSE c

\* Text a stream delivers: chunks of white space and chunks of words.
Blank == " "
StdoutChunks == {Blank, "out"}
StderrChunks == {Blank, "err"}

\* String.prototype.trim on a sequence of chunks.
RECURSIVE TrimStart(_)
TrimStart(t) ==
  IF t = <<>> THEN <<>>
  ELSE IF Head(t) = Blank THEN TrimStart(Tail(t)) ELSE t

RECURSIVE TrimEnd(_)
TrimEnd(t) ==
  IF t = <<>> THEN <<>>
  ELSE IF t[Len(t)] = Blank THEN TrimEnd(SubSeq(t, 1, Len(t) - 1)) ELSE t

trim(t) == TrimEnd(TrimStart(t))

ExitDetailStdoutFirst(stderr, stdout) ==
  IF trim(stdout) # <<>> THEN trim(stdout) ELSE trim(stderr)

\* Line 57: stderr.trim() || stdout.trim()
ExitDetail(stderr, stdout) ==
  IF trim(stderr) # <<>> THEN trim(stderr) ELSE trim(stdout)

\* Line 68: error.message of the 'error' event, e.g. 'spawn /bin/sh ENOENT'.
SpawnMessage == <<"spawn ENOENT">>

\* Lines 33-37: child.stdout.on('data', ...): stdout += output.
StdoutData(i) ==
  /\ cmds[i].child \in {"running", "exited"}
  /\ cmds[i].code # SpawnErrno
  /\ Len(cmds[i].stdout) < MaxOutput
  /\ \E chunk \in StdoutChunks :
       cmds' = [cmds EXCEPT ![i].stdout = Append(@, chunk)]
  /\ UNCHANGED <<now, config, routeVars, job, otherVars>>

\* Lines 39-43: child.stderr.on('data', ...): stderr += output.
StderrData(i) ==
  /\ cmds[i].child \in {"running", "exited"}
  /\ cmds[i].code # SpawnErrno
  /\ Len(cmds[i].stderr) < MaxOutput
  /\ \E chunk \in StderrChunks :
       cmds' = [cmds EXCEPT ![i].stderr = Append(@, chunk)]
  /\ UNCHANGED <<now, config, routeVars, job, otherVars>>

\* Lines 15-19 and 26: spawn(cmd, args, {cwd, shell: true}); setTimeout.
Spawn(role, tool, timeoutMs) ==
  \E child \in {"running", "spawnError"} :
    cmds' = Append(cmds, NewCommand(role, tool, timeoutMs, child))

\* The shell starts the tool and the tool its own children.
ChildFork(i) ==
  /\ cmds[i].child = "running"
  /\ ~cmds[i].kids
  /\ cmds' = [cmds EXCEPT ![i].kids = TRUE]
  /\ UNCHANGED <<now, config, routeVars, job, otherVars>>

KidsExit(i) ==
  /\ cmds[i].kids
  /\ cmds' = [cmds EXCEPT ![i].kids = FALSE]
  /\ UNCHANGED <<now, config, routeVars, job, otherVars>>

\* The shell exits by itself with a code, or is ended by a signal that
\* did not come from runCommand (close then reports code null).
ChildExit(i) ==
  /\ cmds[i].child = "running"
  /\ \E code \in ExitCodes :
       cmds' = [cmds EXCEPT ![i].child = "exited", ![i].code = code]
  /\ UNCHANGED <<now, config, routeVars, job, otherVars>>

\* clearTimeout(timeout)
clearTimeout(t) == IF t = "armed" THEN "cleared" ELSE t

OnCloseKeepsTimer(c) ==
  LET d == [c EXCEPT !.child = "closed"]
  IN  IF d.isTimedOut THEN d
      ELSE IF d.code # 0 THEN Settle(d, "exit")
      ELSE Settle(d, "resolved")

\* Lines 45-63: child.on('close', ...).
OnClose(c) ==
  LET d == [c EXCEPT !.child = "closed", !.timer = clearTimeout(@)]
  IN  IF d.isTimedOut THEN d
      ELSE IF d.code # 0 THEN Reject(d, "exit", ExitDetail(d.stderr, d.stdout))
      ELSE Settle(d, "resolved")

CloseEvent(i) ==
  /\ cmds[i].child = "exited"
  /\ cmds' = [cmds EXCEPT ![i] = OnClose(@)]
  /\ UNCHANGED <<now, config, routeVars, job, otherVars>>

OnTimeoutKillsOnly(c) ==
  LET k == IF c.child = "running"
           THEN [c EXCEPT !.child = "exited", !.code = NoCode, !.killSent = TRUE]
           ELSE c
  IN  [k EXCEPT !.timer = "fired", !.isTimedOut = TRUE]

\* Lines 26-30: the timer callback.  child.kill('SIGKILL') signals the pid
\* of the spawned shell only: the child was not spawned detached and no
\* process group is signalled, so the shell's children keep running.
OnTimeout(c) ==
  LET k == IF c.child = "running"
           THEN [c EXCEPT !.child = "exited", !.code = NoCode, !.killSent = TRUE]
           ELSE c
  IN  Settle([k EXCEPT !.timer = "fired", !.isTimedOut = TRUE], "timeout")

\* A spawn error is emitted on the next tick, before any timer can expire.
TimerFire(i) ==
  /\ cmds[i].timer = "armed"
  /\ cmds[i].child # "spawnError"
  /\ cmds' = [cmds EXCEPT ![i] = OnTimeout(@)]
  /\ UNCHANGED <<now, config, routeVars, job, otherVars>>

\* The delay given to setTimeout, in ticks: a probe's 5000 ms is one tick,
\* config.buildTimeoutMs is MaxTicks.
Duration(timeoutMs) == IF timeoutMs = ProbeTimeoutMs THEN 1 ELSE MaxTicks

\* Time passes for an invocation whose timer is armed; a timer that is due
\* fires before more time passes.
Elapse(i) ==
  /\ cmds[i].timer = "armed"
  /\ cmds[i].age < Duration(cmds[i].timeoutMs)
  /\ cmds' = [cmds EXCEPT ![i].age = @ + 1]
  /\ UNCHANGED <<now, config, routeVars, job, otherVars>>

\* The timer callback at the time setTimeout was given.
TimerExpire(i) ==
  /\ cmds[i].age = Duration(cmds[i].timeoutMs)
  /\ TimerFire(i)

\* Lines 65-69: child.on('error', ...); 'close' follows a spawn error.
OnError(c) ==
  Reject([c EXCEPT !.child = "exited", !.code = SpawnErrno,
                   !.timer = clearTimeout(@)], "error", SpawnMessage)

ErrorEvent(i) ==
  /\ cmds[i].child = "spawnError"
  /\ cmds' = [cmds EXCEPT ![i] = OnError(@)]
  /\ UNCHANGED <<now, config, routeVars, job, otherVars>>


(***************************************************************************)
(* runBuild and installDependencies (buildService.js lines 133-213).  The  *)
(* job awaits its latest command; each After... action is the continuation *)
(* that runs once that command's promise has settled.                      *)
(***************************************************************************)
possibleDistDirs == <<"dist", "build", "out", ".next">>

Candidates == {possibleDistDirs[i] : i \in DOMAIN possibleDistDirs}

\* What the workspace root holds under each candidate name once the build
\* command is over.
Outputs == [Candidates -> {"absent", "file", "directory"}]

(***************************************************************************)
(* detectProjectType (buildService.js lines 74-108).  What it reads of a   *)
(* workspace:                                                              *)
(*   manifest  package.json: absent (no regular file of that name) |       *)
(*             unreadable (readFile rejects) | invalid (not JSON) |        *)
(*             null | scalar (JSON that is not an object) | object         *)
(*   dependencies, devDependencies   of an object manifest: the value of   *)
(*             each known name, Undefined when the name is not a key       *)
(*   files     the configuration files present as regular files            *)
(***************************************************************************)
ProjectTypes == {"astro", "vite", "react", "vue", "svelte", "generic"}
DepNames == {"astro", "vite", "@vitejs/plugin-react", "react", "vue", "svelte"}
ConfigFiles ==
  {"astro.config.mjs", "astro.config.js", "vite.config.js", "vite.config.ts"}
Undefined == "undefined"
Version == "^1.0.0"
NoDeps == [n \in DepNames |-> Undefined]

Dependencies == [DepNames -> {Undefined, Version}]
DevDependencies ==
  { NoDeps,
    [NoDeps EXCEPT !["vite"] = Version],
    [NoDeps EXCEPT !["astro"] = Version],
    [NoDeps EXCEPT !["react"] = ""] }

Workspaces ==
  [manifest : {"object"}, dependencies : Dependencies,
   devDependencies : DevDependencies, files : SUBSET ConfigFiles]
  \cup
  [manifest : {"absent", "unreadable", "invalid", "null", "scalar"},
   dependencies : {NoDeps}, devDependencies : {NoDeps},
   files : SUBSET ConfigFiles]

\* Line 82: { ...packageJson.dependencies, ...packageJson.devDependencies }:
\* a key of the second object replaces the same key of the first.
Spread(a, b) == [n \in DepNames |-> IF b[n] # Undefined THEN b[n] ELSE a[n]]

\* if (deps.x): undefined and the empty string are falsy.
Truthy(v) == v \notin {Undefined, ""}

\* Lines 84-90.
LabelOfDeps(deps) ==
  IF Truthy(deps["astro"]) THEN "astro"
  ELSE IF Truthy(deps["vite"]) \/ Truthy(deps["@vitejs/plugin-react"]) THEN "vite"
  ELSE IF Truthy(deps["react"]) THEN "react"
  ELSE IF Truthy(deps["vue"]) THEN "vue"
  ELSE IF Truthy(deps["svelte"]) THEN "svelte"
  ELSE "generic"

\* Lines 79-90, the body of the try: readFile rejects on an unreadable
\* file, JSON.parse throws on text that is not JSON, and reading a property
\* of null throws; a scalar has no such properties and spreads to nothing.
ReadManifest(w) ==
  IF w.manifest \in {"unreadable", "invalid", "null"}
  THEN [threw |-> TRUE, label |-> Undefined]
  ELSE IF w.manifest = "scalar"
  THEN [threw |-> FALSE, label |-> LabelOfDeps(NoDeps)]
  ELSE [threw |-> FALSE,
        label |-> LabelOfDeps(Spread(w.dependencies, w.devDependencies))]

\* Lines 96-106.
LabelOfConfigFiles(files) ==
  IF "astro.config.mjs" \in files \/ "astro.config.js" \in files THEN "astro"
  ELSE IF "vite.config.js" \in files \/ "vite.config.ts" \in files THEN "vite"
  ELSE "generic"

detectProjectTypeWithoutCatch(w) ==
  IF w.manifest # "absent"
  THEN ReadManifest(w)
  ELSE [threw |-> FALSE, label |-> LabelOfConfigFiles(w.files)]

\* Lines 74-108: an exception of the try is caught and logged (lines 91-93)
\* and the configuration files decide.
detectProjectType(w) ==
  IF w.manifest # "absent" /\ ~ReadManifest(w).threw
  THEN ReadManifest(w)
  ELSE [threw |-> FALSE, label |-> LabelOfConfigFiles(w.files)]

\* The workspace the other specifications build: a React project with vite.
DefaultWorkspace ==
  [manifest |-> "object",
   dependencies |-> [NoDeps EXCEPT !["react"] = Version],
   devDependencies |-> [NoDeps EXCEPT !["vite"] = Version],
   files |-> {"vite.config.js"}]

NoJobError == [kind |-> "none", by |-> 0, install |-> FALSE]
IdleJob ==
  [pc |-> "idle", error |-> NoJobError, distDir |-> "",
   outputs |-> [d \in Candidates |-> "absent"],
   workspace |-> DefaultWorkspace, projectType |-> Undefined]

Last == cmds[Len(cmds)]
SettledOrStarted == Len(cmds) > 0
Settled == Len(cmds) > 0 /\ Last.outcome # "pending"
SucceededOrNotFound == Last.outcome \in {"resolved", "exit"}
Succeeded == Last.outcome = "resolved"

CommandErrorAsExit(i) == [kind |-> "exit", by |-> i, install |-> FALSE]

\* The Error a failed command rejects with: its kind and its own detail
\* (the command line for a timeout, the captured output for an exit).
CommandError(i) == [kind |-> cmds[i].outcome, by |-> i, install |-> FALSE]

\* Lines 138-139.
InstallCommand(pm) ==
  IF pm = "npm" THEN "npm install --silent" ELSE
  IF pm = "pnpm" THEN "pnpm install" ELSE "yarn install"

FallbackForAnyManager(pm) == TRUE

\* Line 152: the fallback is taken for pnpm only.
UsesFallback(pm) == pm = "pnpm"

SurfacedPrimaryError(primary, fallback) ==
  [kind |-> cmds[primary].outcome, by |-> primary, install |-> TRUE]

\* Lines 163-166: the outer catch wraps the error that reached it, which
\* after a failed fallback is the fallback's (the primary's was logged).
SurfacedInstallError(primary, fallback) ==
  [CommandError(fallback) EXCEPT !.install = TRUE]

Fail(err) ==
  /\ job' = [job EXCEPT !.pc = "failed", !.error = err]
  /\ cmds' = cmds

\* Lines 170-178: runBuild classifies the project, then starts with
\* `which node`; an exception of detectProjectType would go to runBuild's
\* catch and be rethrown.
RunBuildStart ==
  /\ job.pc = "idle"
  /\ LET t == detectProjectType(job.workspace)
     IN  IF t.threw
         THEN Fail([kind |-> "detect", by |-> 0, install |-> FALSE])
         ELSE /\ job' = [job EXCEPT !.pc = "whichNode",
                                    !.projectType = t.label]
              /\ Spawn("whichNode", "which node", ProbeTimeoutMs)
  /\ UNCHANGED <<now, config, routeVars, otherVars>>

\* Line 179.
AfterWhichNode ==
  /\ job.pc = "whichNode" /\ Settled
  /\ IF Succeeded
     THEN /\ job' = [job EXCEPT !.pc = "whichNpm"]
          /\ Spawn("whichNpm", "which npm", ProbeTimeoutMs)
     ELSE Fail(CommandError(Len(cmds)))
  /\ UNCHANGED <<now, config, routeVars, otherVars>>

\* Lines 182 and 138-149: installDependencies starts.
AfterWhichNpm ==
  /\ job.pc = "whichNpm" /\ Settled
  /\ IF ~Succeeded THEN Fail(CommandError(Len(cmds)))
     ELSE IF config.packageManager = "pnpm"
     THEN /\ job' = [job EXCEPT !.pc = "whichPnpm"]
          /\ Spawn("whichPnpm", "which pnpm", ProbeTimeoutMs)
     ELSE /\ job' = [job EXCEPT !.pc = "primary"]
          /\ Spawn("primary", InstallCommand(config.packageManager),
                   buildTimeoutMs)
  /\ UNCHANGED <<now, config, routeVars, otherVars>>

\* The fallback of lines 150-156: npm install --silent.
StartFallback ==
  /\ job' = [job EXCEPT !.pc = "fallback"]
  /\ Spawn("fallback", InstallCommand("npm"), buildTimeoutMs)

\* Lines 145-146 and the inner catch.
AfterWhichPnpm ==
  /\ job.pc = "whichPnpm" /\ Settled
  /\ IF Succeeded
     THEN /\ job' = [job EXCEPT !.pc = "primary"]
          /\ Spawn("primary", InstallCommand("pnpm"), buildTimeoutMs)
     ELSE IF UsesFallback(config.packageManager) THEN StartFallback
     ELSE Fail([CommandError(Len(cmds)) EXCEPT !.install = TRUE])
  /\ UNCHANGED <<now, config, routeVars, otherVars>>

BuildCommandOfManager(pm) ==
  IF pm = "npm" THEN "npm run build" ELSE
  IF pm = "pnpm" THEN "pnpm run build" ELSE "yarn run build"

\* Lines 184-186: buildCmd = 'npm', buildArgs = ['run', 'build'], whatever
\* the configured package manager.
BuildCommand(pm) == "npm run build"

\* Lines 184-188: the build command.
StartBuild ==
  /\ job' = [job EXCEPT !.pc = "build"]
  /\ Spawn("build", BuildCommand(config.packageManager), buildTimeoutMs)

\* Lines 146/148 and the inner catch (lines 150-160).
AfterPrimary ==
  /\ job.pc = "primary" /\ Settled
  /\ IF Succeeded THEN StartBuild
     ELSE IF UsesFallback(config.packageManager) THEN StartFallback
     ELSE Fail([CommandError(Len(cmds)) EXCEPT !.install = TRUE])
  /\ UNCHANGED <<now, config, routeVars, otherVars>>

\* Line 156 and the outer catch (lines 163-166).
AfterFallback ==
  /\ job.pc = "fallback" /\ Settled
  /\ IF Succeeded THEN StartBuild
     ELSE Fail(SurfacedInstallError(Len(cmds) - 1, Len(cmds)))
  /\ UNCHANGED <<now, config, routeVars, otherVars>>

NoArtifactAsCommandFailure == [kind |-> "exit", by |-> 0, install |-> FALSE]

\* Lines 202-204: throw new Error('Diretorio de build nao encontrado...'),
\* an Error of runBuild's own, with a fixed message and no command behind it.
NoArtifactError == [kind |-> "noArtifact", by |-> 0, install |-> FALSE]

\* directoryExists (fileSystem.js lines 117-124): stats.isDirectory(), and
\* false when fs.stat throws.
directoryExists(outputs, d) == outputs[d] = "directory"

RECURSIVE LastExisting(_, _)
LastExisting(candidates, present) ==
  IF candidates = <<>> THEN ""
  ELSE IF candidates[Len(candidates)] \in present
       THEN candidates[Len(candidates)]
  ELSE LastExisting(SubSeq(candidates, 1, Len(candidates) - 1), present)

\* Lines 191-200: the first candidate that is a directory.
RECURSIVE FirstExisting(_, _)
FirstExisting(candidates, present) ==
  IF candidates = <<>> THEN ""
  ELSE IF Head(candidates) \in present THEN Head(candidates)
  ELSE FirstExisting(Tail(candidates), present)

\* Lines 188-207: after the build command, look for the output directory.
AfterBuild ==
  /\ job.pc = "build" /\ Settled
  /\ IF ~Succeeded THEN Fail(CommandError(Len(cmds)))
     ELSE \E outputs \in Outputs :
            LET present == {d \in Candidates : directoryExists(outputs, d)}
                distDir == FirstExisting(possibleDistDirs, present)
            IN  /\ cmds' = cmds
                /\ IF distDir = ""
                   THEN job' = [job EXCEPT
                          !.pc = "failed", !.outputs = outputs,
                          !.error = NoArtifactError]
                   ELSE job' = [job EXCEPT !.pc = "done", !.outputs = outputs,
                                           !.distDir = distDir]
  /\ UNCHANGED <<now, config, routeVars, otherVars>>

(***************************************************************************)
(* GET /health (routes/health.js lines 22-96) with checkBuildTools         *)
(* (buildService.js lines 110-130).  The handler reads the host: the       *)
(* previews and logs directories, the file system's statistics and the     *)
(* tools `which` finds on the PATH.                                        *)
(***************************************************************************)
Tools == {"node", "npm", "pnpm", "yarn"}
HealthDirs == {"previewsDir", "logsDir"}

Hosts ==
  [paths : [HealthDirs -> {"absent", "file", "directory"}],
   tools : SUBSET Tools]

\* fs.statfs as the health check meets it, with readings around 95%.
HealthStatfsOutcomes ==
  IF ~config.hostStatfs THEN {NoStatfs}
  ELSE {[ok |-> TRUE, blocks |-> 100000, bavail |-> a] :
          a \in {6000, 5004, 5000, 4000}}

\* checkBuildTools lines 111-117: node and npm, then the configured pnpm or
\* yarn.
BuildTools(pm) ==
  <<"node", "npm">> \o (IF pm = "pnpm" THEN <<"pnpm">>
                        ELSE IF pm = "yarn" THEN <<"yarn">>
                        ELSE <<>>)

\* runCommand('which', [tool]) resolves when `which` exits with code 0,
\* which it does for a tool on the PATH.
Which(host, tool) == tool \in host.tools

NoChecks ==
  [previews |-> FALSE, logs |-> FALSE,
   diskSpace |-> [isNull |-> TRUE, usagePercent |-> 0],
   buildTools |-> [available |-> FALSE, error |-> ""]]

IdleHealth ==
  [pc |-> "idle",
   host |-> [paths |-> [d \in HealthDirs |-> "directory"], tools |-> Tools],
   stats |-> NoStatfs, checks |-> NoChecks, pending |-> <<>>,
   status |-> 0, success |-> FALSE, body |-> ""]

isHealthyUpToCeiling(checks) ==
  /\ checks.previews
  /\ checks.logs
  /\ checks.buildTools.available
  /\ (checks.diskSpace.isNull
        \/ checks.diskSpace.usagePercent <= healthCeiling * 100)

\* Lines 63-67.
isHealthy(checks) ==
  /\ checks.previews
  /\ checks.logs
  /\ checks.buildTools.available
  /\ (checks.diskSpace.isNull
        \/ checks.diskSpace.usagePercent < healthCeiling * 100)

\* Lines 23-34: the two directories and the disk.
HealthStart ==
  /\ health.pc = "idle"
  /\ \E stats \in HealthStatfsOutcomes :
       health' = [health EXCEPT
         !.pc = "tools",
         !.stats = stats,
         !.checks = [@ EXCEPT
            !.previews = directoryExists(health.host.paths, "previewsDir"),
            !.logs = directoryExists(health.host.paths, "logsDir"),
            !.diskSpace = checkDiskSpace(stats)],
         !.pending = BuildTools(config.packageManager)]
  /\ UNCHANGED <<now, config, routeVars, buildVars, inject>>

\* One turn of checkBuildTools' loop (lines 119-126): the first tool that
\* `which` does not find ends the loop with an error, which the handler
\* catches at lines 40-45.
HealthProbe ==
  /\ health.pc = "tools"
  /\ health.pending # <<>>
  /\ LET tool == Head(health.pending)
     IN  IF Which(health.host, tool)
         THEN health' = [health EXCEPT !.pending = Tail(@)]
         ELSE health' = [health EXCEPT
                !.pc = "respond", !.pending = <<>>,
                !.checks.buildTools = [available |-> FALSE, error |-> tool]]
  /\ UNCHANGED <<now, config, routeVars, buildVars, inject>>

\* Line 39: checkBuildTools returned.
HealthToolsFound ==
  /\ health.pc = "tools"
  /\ health.pending = <<>>
  /\ health' = [health EXCEPT
       !.pc = "respond",
       !.checks.buildTools = [available |-> TRUE, error |-> ""]]
  /\ UNCHANGED <<now, config, routeVars, buildVars, inject>>

\* Lines 62-90: res.json(response) answers 200.
HealthAnswer ==
  /\ health.pc = "respond"
  /\ health' = [health EXCEPT
       !.pc = "answered",
       !.success = TRUE,
       !.status = IF isHealthy(health.checks) THEN 200 ELSE 503,
       !.body = IF isHealthy(health.checks) THEN "healthy" ELSE "degraded"]
  /\ UNCHANGED <<now, config, routeVars, buildVars, inject>>

(***************************************************************************)
(* runBuild of the variant that injects the preview's base URL into the    *)
(* project's configuration (part_001 lines 40-80).  A file's text is       *)
(* kept by what the two patterns find in it, and `base` names the preview  *)
(* whose base URL a replacement put in.                                    *)
(***************************************************************************)
viteConfigPath == "vite.config.js"
astroConfigPath == "astro.config.mjs"
ConfigPaths == {viteConfigPath, astroConfigPath}

\* "": an empty file; "viteReact": a text line 51's pattern matches (and
\* so line 60's); "defineConfig": a text only line 60's pattern matches;
\* "plain": a text neither matches.
Texts == {"", "viteReact", "defineConfig", "plain"}

NoFile == [exists |-> FALSE, text |-> "", base |-> ""]
FileOf(text) == [exists |-> TRUE, text |-> text, base |-> ""]
ProjectConfigs == [ConfigPaths -> {NoFile} \cup {FileOf(t) : t \in Texts}]

\* Lines 50-53: String.replace with the pattern for a React Vite config.
ReplaceVite(content, previewId) ==
  IF content.text = "viteReact" THEN [content EXCEPT !.base = previewId]
  ELSE content

\* Lines 59-62: String.replace of the first `defineConfig({`.
ReplaceAstro(content, previewId) ==
  IF content.text \in {"viteReact", "defineConfig"}
  THEN [content EXCEPT !.base = previewId]
  ELSE content

IdleInject ==
  [pc |-> "idle", previewId |-> "p1",
   files |-> [f \in ConfigPaths |-> NoFile],
   before |-> [f \in ConfigPaths |-> NoFile],
   originalConfigContent |-> [isNull |-> TRUE, value |-> NoFile],
   configModified |-> FALSE, written |-> {}, threw |-> FALSE]

\* Lines 48-66: fs.access tells whether the file is there.
InjectBaseUrl ==
  /\ inject.pc = "idle"
  /\ LET files == inject.files
         id == inject.previewId
     IN  IF files[viteConfigPath].exists
         THEN inject' = [inject EXCEPT
                !.pc = "build",
                !.originalConfigContent =
                   [isNull |-> FALSE, value |-> files[viteConfigPath]],
                !.files[viteConfigPath] = ReplaceVite(files[viteConfigPath], id),
                !.written = {viteConfigPath},
                !.configModified = TRUE]
         ELSE IF files[astroConfigPath].exists
         THEN inject' = [inject EXCEPT
                !.pc = "build",
                !.originalConfigContent =
                   [isNull |-> FALSE, value |-> files[astroConfigPath]],
                !.files[astroConfigPath] = ReplaceAstro(files[astroConfigPath], id),
                !.written = {astroConfigPath},
                !.configModified = TRUE]
         ELSE inject' = [inject EXCEPT !.pc = "build"]
  /\ UNCHANGED <<now, config, routeVars, buildVars, health>>

\* Lines 68-70: `pnpm run build` resolves, or rejects into the catch.
BuildWithPnpm ==
  /\ inject.pc = "build"
  /\ \E ok \in BOOLEAN :
       inject' = [inject EXCEPT !.pc = IF ok THEN "finally" ELSE "fallback"]
  /\ UNCHANGED <<now, config, routeVars, buildVars, health>>

\* Lines 71-72: `npm run build`, whose rejection leaves runBuild after the
\* finally block.
BuildWithNpm ==
  /\ inject.pc = "fallback"
  /\ \E ok \in BOOLEAN :
       inject' = [inject EXCEPT !.pc = "finally", !.threw = ~ok]
  /\ UNCHANGED <<now, config, routeVars, buildVars, health>>

\* Lines 73-79: originalConfigContent is a string, and '' is falsy; line 76
\* writes to viteConfigPath.
RestoreConfig ==
  /\ inject.pc = "finally"
  /\ LET original == inject.originalConfigContent
         path == viteConfigPath
     IN  IF inject.configModified /\ ~original.isNull
              /\ original.value.text # ""
         THEN inject' = [inject EXCEPT
                !.pc = IF inject.threw THEN "failed" ELSE "done",
                !.files[path] = original.value]
         ELSE inject' = [inject EXCEPT
                !.pc = IF inject.threw THEN "failed" ELSE "done"]
  /\ UNCHANGED <<now, config, routeVars, buildVars, health>>

InitOther ==
  /\ health = IdleHealth
  /\ inject = IdleInject

(***************************************************************************)
(* Specifications.                                                         *)
(***************************************************************************)
InitCommon ==
  /\ now = 0
  /\ InitOther
  /\ dirs = [p \in Projects |-> NoDir]
  /\ req = [p \in Projects |-> NewReq]
  /\ wst = [p \in Projects |-> [k \in Keys |-> "none"]]
  /\ sweep = [s \in Sweepers |-> IdleSweep]
  /\ lastSwept = NoRemoval
  /\ job = IdleJob
  /\ cmds = <<>>

\* The previews root outlives the process (it is a mounted volume), so a
\* server starts over what earlier requests left.  Spec starts with one
\* request still to come and one workspace left behind by a request that
\* failed in staging and whose removal failed.
Leftover == "p2"

LeftoverReq ==
  [NewReq EXCEPT !.pc = "answered", !.files = {"package.json"}, !.bytes = 1,
                 !.projectDir = TRUE, !.error = PlainError("staging"),
                 !.status = 500, !.cleanupFailed = TRUE]

Init ==
  /\ now = 0
  /\ InitOther
  /\ config \in {c \in Configs : c.packageManager = "pnpm" /\ c.hostStatfs}
  /\ dirs = [p \in Projects |->
              IF p = Leftover THEN [NoDir EXCEPT !.exists = TRUE] ELSE NoDir]
  /\ req = [p \in Projects |-> IF p = Leftover THEN LeftoverReq ELSE NewReq]
  /\ wst = [p \in Projects |->
             [k \in Keys |->
               IF p = Leftover /\ k = "package.json" THEN "failed" ELSE "none"]]
  /\ sweep = [s \in Sweepers |-> IdleSweep]
  /\ lastSwept = NoRemoval
  /\ job = IdleJob
  /\ cmds = <<>>

Next ==
  \/ Tick
  \/ \E p \in Projects : Receive(p)
  \/ \E p \in Projects : Validate(p)
  \/ \E p \in Projects : EnsureProjectDir(p)
  \/ \E p \in Projects, k \in Keys : WriteMkdir(p, k)
  \/ \E p \in Projects, k \in Keys : WriteFile(p, k)
  \/ \E p \in Projects : SizeCheck(p)
  \/ \E p \in Projects : Cleanup(p)
  \/ \E s \in Sweepers : SweepStart(s)
  \/ \E s \in Sweepers, e \in Projects \cup {Stray} : SweepExamine(s, e)
  \/ \E s \in Sweepers : SweepRemove(s)
  \/ \E s \in Sweepers : SweepFinish(s)

Spec == Init /\ [][Next]_vars

InitBuild ==
  /\ InitCommon
  /\ config \in {c \in Configs : c.previewMaxAgeMs = 1 /\ c.hostStatfs}

NextBuild ==
  \/ RunBuildStart
  \/ AfterWhichNode
  \/ AfterWhichNpm
  \/ AfterWhichPnpm
  \/ AfterPrimary
  \/ AfterFallback
  \/ AfterBuild
  \/ \E i \in DOMAIN cmds : ChildFork(i)
  \/ \E i \in DOMAIN cmds : KidsExit(i)
  \/ \E i \in DOMAIN cmds : ChildExit(i)
  \/ \E i \in DOMAIN cmds : CloseEvent(i)
  \/ \E i \in DOMAIN cmds : TimerFire(i)
  \/ \E i \in DOMAIN cmds : ErrorEvent(i)

SpecBuild == InitBuild /\ [][NextBuild]_vars

\* The entry of runBuild over every workspace content that
\* detectProjectType distinguishes.
InitClassify ==
  /\ now = 0
  /\ InitOther
  /\ dirs = [p \in Projects |-> NoDir]
  /\ req = [p \in Projects |-> NewReq]
  /\ wst = [p \in Projects |-> [k \in Keys |-> "none"]]
  /\ sweep = [s \in Sweepers |-> IdleSweep]
  /\ lastSwept = NoRemoval
  /\ cmds = <<>>
  /\ job \in {[IdleJob EXCEPT !.workspace = w] : w \in Workspaces}
  /\ config \in {c \in Configs : /\ c.previewMaxAgeMs = 1
                                 /\ c.hostStatfs
                                 /\ c.packageManager = "npm"}

NextClassify == RunBuildStart

SpecClassify == InitClassify /\ [][NextClassify]_vars

\* runBuild with npm configured and the time of each command's timer.
InitTimed ==
  /\ InitCommon
  /\ config \in {c \in Configs : /\ c.previewMaxAgeMs = 1
                                 /\ c.hostStatfs
                                 /\ c.packageManager = "npm"}

NextTimed ==
  \/ RunBuildStart
  \/ AfterWhichNode
  \/ AfterWhichNpm
  \/ AfterPrimary
  \/ AfterBuild
  \/ \E i \in DOMAIN cmds : Elapse(i)
  \/ \E i \in DOMAIN cmds : ChildExit(i)
  \/ \E i \in DOMAIN cmds : CloseEvent(i)
  \/ \E i \in DOMAIN cmds : TimerExpire(i)
  \/ \E i \in DOMAIN cmds : ErrorEvent(i)

SpecTimed == InitTimed /\ [][NextTimed]_vars

\* One invocation of runCommand by itself, with the output its child
\* writes: a probe (5000 ms) or a build command (config.buildTimeoutMs).
Invocations ==
  { <<"whichNode", "which node", ProbeTimeoutMs>>,
    <<"build", "npm run build", buildTimeoutMs>> }

RunCommand ==
  /\ cmds = <<>>
  /\ \E a \in Invocations : Spawn(a[1], a[2], a[3])
  /\ UNCHANGED <<now, config, routeVars, job, otherVars>>

NextCommand ==
  \/ RunCommand
  \/ \E i \in DOMAIN cmds : StdoutData(i)
  \/ \E i \in DOMAIN cmds : StderrData(i)
  \/ \E i \in DOMAIN cmds : ChildFork(i)
  \/ \E i \in DOMAIN cmds : KidsExit(i)
  \/ \E i \in DOMAIN cmds : ChildExit(i)
  \/ \E i \in DOMAIN cmds : CloseEvent(i)
  \/ \E i \in DOMAIN cmds : TimerFire(i)
  \/ \E i \in DOMAIN cmds : ErrorEvent(i)

SpecCommand == InitBuild /\ [][NextCommand]_vars

\* One request in progress, no sweep, under every configured file limit.
InitOne ==
  /\ now = 0
  /\ InitOther
  /\ config \in {c \in ConfigsWithMaxFiles :
                   /\ c.previewMaxAgeMs = 1
                   /\ c.packageManager = "pnpm"
                   /\ c.hostStatfs}
  /\ dirs = [p \in Projects |->
              IF p = Leftover THEN [NoDir EXCEPT !.exists = TRUE] ELSE NoDir]
  /\ req = [p \in Projects |-> IF p = Leftover THEN LeftoverReq ELSE NewReq]
  /\ wst = [p \in Projects |->
             [k \in Keys |->
               IF p = Leftover /\ k = "package.json" THEN "failed" ELSE "none"]]
  /\ sweep = [s \in Sweepers |-> IdleSweep]
  /\ lastSwept = NoRemoval
  /\ job = IdleJob
  /\ cmds = <<>>

NextOne ==
  \/ \E p \in Projects : Receive(p)
  \/ \E p \in Projects : Validate(p)
  \/ \E p \in Projects : EnsureProjectDir(p)
  \/ \E p \in Projects, k \in Keys : WriteMkdir(p, k)
  \/ \E p \in Projects, k \in Keys : WriteFile(p, k)
  \/ \E p \in Projects : SizeCheck(p)
  \/ \E p \in Projects : Cleanup(p)

SpecOne == InitOne /\ [][NextOne]_vars

\* Two requests in progress at once, each with its own project id, and no
\* sweep.
InitTwo ==
  /\ InitCommon
  /\ config \in {c \in Configs :
                   c.previewMaxAgeMs = 1 /\ c.packageManager = "pnpm"}

NextTwo ==
  \/ \E p \in Projects : Receive(p)
  \/ \E p \in Projects : Validate(p)
  \/ \E p \in Projects : EnsureProjectDir(p)
  \/ \E p \in Projects, k \in Keys : WriteMkdir(p, k)
  \/ \E p \in Projects, k \in Keys : WriteFile(p, k)
  \/ \E p \in Projects : SizeCheck(p)
  \/ \E p \in Projects : Cleanup(p)

SpecTwo == InitTwo /\ [][NextTwo]_vars

\* The sweeper alone, over two workspaces that finished requests left in
\* place (each failed in staging and its removal failed) and that nothing
\* modifies again.
InitSweep ==
  /\ now = 0
  /\ InitOther
  /\ config \in {c \in Configs : c.packageManager = "pnpm" /\ c.hostStatfs}
  /\ dirs = [p \in Projects |-> [NoDir EXCEPT !.exists = TRUE]]
  /\ req = [p \in Projects |-> LeftoverReq]
  /\ wst = [p \in Projects |->
             [k \in Keys |-> IF k = "package.json" THEN "failed" ELSE "none"]]
  /\ sweep = [s \in Sweepers |-> IdleSweep]
  /\ lastSwept = NoRemoval
  /\ job = IdleJob
  /\ cmds = <<>>

NextSweep ==
  \/ Tick
  \/ \E s \in Sweepers : SweepStart(s)
  \/ \E s \in Sweepers, e \in Projects \cup {Stray} : SweepExamine(s, e)
  \/ \E s \in Sweepers : SweepRemove(s)
  \/ \E s \in Sweepers : SweepFinish(s)

\* fs.rm on the target p of sweep s goes through.
RemovalSucceeds(s, p) ==
  /\ sweep[s].target = p
  /\ SweepRemove(s)
  /\ ~dirs'[p].exists

\* The workspace whose removal may fail every time it is tried.
Undeletable == "p2"

\* Scheduling: the clock advances; setInterval keeps starting sweeps
\* (server.js lines 208-212); every await of a running sweep continues;
\* and the removal of a workspace other than Undeletable, if tried again
\* and again, goes through.  The order in which a sweep meets the entries
\* is readdir's.
SweepFairness ==
  /\ WF_vars(Tick)
  /\ \A s \in Sweepers :
       /\ WF_vars(SweepStart(s))
       /\ WF_vars(\E e \in Projects \cup {Stray} : SweepExamine(s, e))
       /\ WF_vars(SweepRemove(s))
       /\ WF_vars(SweepFinish(s))
       /\ \A p \in Projects \ {Undeletable} : SF_vars(RemovalSucceeds(s, p))

SpecSweep == InitSweep /\ [][NextSweep]_vars /\ SweepFairness


(***************************************************************************)
(* Claims checked under Spec.                                              *)
(***************************************************************************)
AllWritesFinished(p) == \A k \in Keys : wst[p][k] \notin {"mkdir", "write"}

\* C1: a request that failed after its workspace was created, has been
\* answered, whose writes have all finished (and whose own removal did not
\* fail) leaves no workspace directory.  Refuted: Promise.all rejects at the
\* first failed write, the catch removes the directory, and a write still in
\* flight then re-creates it with mkdir -p.
C1_FailedRequestLeavesNoWorkspace ==
  \A p \in Projects :
    (/\ req[p].pc = "answered"
     /\ req[p].projectDir
     /\ ~req[p].cleanupFailed
     /\ AllWritesFinished(p)) => ~dirs[p].exists

\* C2: a sweep never removes the workspace of a request that is still
\* staging or building.  Refuted: the sweep looks at the modification time
\* only.
C2_SweepSparesActiveBuild ==
  lastSwept.name # "" => lastSwept.ownerPc \notin {"mkdir", "staging", "size"}

ToolchainFailures == {"timeout", "exit", "error", "noArtifact"}

\* C3: a request that passed the disk check, validation, staging and the
\* size check, and none of whose commands failed, is answered with success
\* (status 200).  Refuted: the runBuild call itself throws.
C3_PassingRequestAnsweredSuccess ==
  \A p \in Projects :
    (/\ req[p].pc = "answered"
     /\ req[p].passedSize
     /\ req[p].error.kind \notin ToolchainFailures) => req[p].status = 200

C11_SweepReturnsRemovalCount ==
  \A s \in Sweepers :
    (sweep[s].pc = "done" /\ sweep[s].failed = {} /\ sweep[s].vanished = {}) =>
      sweep[s].returned = Number(Cardinality(sweep[s].deleted))

\* C12: under SpecSweep's scheduling, every workspace left in place by a
\* finished request, not modified again and whose own removal does not keep
\* failing, is eventually removed by a sweep, even when the removal of
\* another workspace keeps failing.  Refuted: a failed removal ends the
\* sweep, so an entry that readdir lists after the failing one is never
\* examined.
C12_LeftWorkspaceEventuallySwept ==
  \A p \in Projects \ {Undeletable} :
    (dirs[p].exists /\ req[p].pc = "answered") ~> ~dirs[p].exists

RejectedTooLarge(p) ==
  req[p].pc = "answered" /\ req[p].error.kind = "tooLarge"

\* C17 as claimed: a request rejected for its staged size leaves no
\* workspace directory.  Refuted when the removal itself fails.
C17_OversizeWorkspaceAlwaysRemoved ==
  \A p \in Projects : RejectedTooLarge(p) => ~dirs[p].exists

\* C17 as amended: a workspace measured above maxProjectSize does not pass
\* the size check: the request fails with the 413 error, is answered 413
\* and never gets to the runBuild call; and when the removal in the catch
\* did not fail, the directory is gone, stays gone, and no sweep that
\* starts afterwards lists it.
C17_OversizeRejectedAndRemoved ==
  [][\A p \in Projects :
       /\ (SizeCheck(p)
            /\ getDirectorySize(dirs[p], req[p].bytes) > maxProjectSize) =>
             /\ req'[p].pc = "cleanup"
             /\ req'[p].error = AppError("tooLarge", 413)
             /\ ~req'[p].passedSize
       /\ (Cleanup(p) /\ req[p].error.kind = "tooLarge") =>
             /\ req'[p].status = 413
             /\ ~req'[p].passedSize
             /\ ~req'[p].cleanupFailed => ~dirs'[p].exists
       /\ (RejectedTooLarge(p) /\ ~req[p].cleanupFailed) =>
             /\ ~dirs[p].exists
             /\ ~dirs'[p].exists
             /\ \A s \in Sweepers : SweepStart(s) => p \notin sweep'[s].listed
    ]_vars

\* C17 witness: the request was answered 413, its directory is gone, and a
\* sweep that ran to its end over the previews root did not list it.
C17_Witness ==
  \E p \in Projects, s \in Sweepers :
    /\ RejectedTooLarge(p)
    /\ req[p].status = 413
    /\ ~req[p].cleanupFailed
    /\ ~dirs[p].exists
    /\ sweep[s].pc = "done"
    /\ sweep[s].listed # {}
    /\ p \notin sweep[s].listed

\* C10: whatever a sweep removed was a directory whose age, when the sweep
\* examined it, was strictly above the configured max age.
C10_SweepRemovesOnlyExpiredDirectories ==
  lastSwept.name # "" =>
    /\ lastSwept.name \in Projects
    /\ lastSwept.ageMs > config.previewMaxAgeMs

\* C10 witness: a finished sweep removed an expired directory and kept a
\* listed directory that was not older than the max age.
C10_Witness ==
  \E s \in Sweepers :
    /\ sweep[s].pc = "done"
    /\ sweep[s].failed = {}
    /\ sweep[s].cleanedCount = 1
    /\ lastSwept.name # ""
    /\ \E p \in sweep[s].listed \cap Projects :
         /\ dirs[p].exists
         /\ sweep[s].now0 - dirs[p].mtime <= config.previewMaxAgeMs

(***************************************************************************)
(* Claims checked under SpecBuild.                                         *)
(***************************************************************************)
Failed(i) == cmds[i].outcome \in {"timeout", "exit", "error"}
Fallbacks == {i \in DOMAIN cmds : cmds[i].role = "fallback"}
PrimaryAttempts == {i \in DOMAIN cmds : cmds[i].role \in {"whichPnpm", "primary"}}
PrimaryFailed == \E i \in PrimaryAttempts : Failed(i)
PastPrimary == job.pc \notin {"whichPnpm", "primary"}

\* C4 as claimed: for every configured package manager, once the primary
\* install attempt has failed the fallback installer is attempted exactly
\* once.  Refuted for yarn and npm.
C4_FallbackForEveryManager ==
  (PrimaryFailed /\ PastPrimary) => Cardinality(Fallbacks) = 1

\* C4 as amended: the fallback (npm install --silent) is never attempted
\* more than once; it is attempted exactly once after a failed primary
\* attempt when the configured manager is pnpm, and never otherwise.
C4_FallbackOnceForPnpm ==
  /\ Cardinality(Fallbacks) <= 1
  /\ \A i \in Fallbacks : cmds[i].tool = "npm install --silent"
  /\ (PrimaryFailed /\ PastPrimary) =>
       (Cardinality(Fallbacks) = 1 <=> config.packageManager = "pnpm")
  /\ ~PrimaryFailed => Fallbacks = {}

C4_Witness ==
  /\ config.packageManager = "pnpm"
  /\ \E i \in PrimaryAttempts : cmds[i].role = "primary" /\ Failed(i)
  /\ Cardinality(Fallbacks) = 1
  /\ job.pc \in {"build", "done", "failed"}

\* C5: when the fallback attempt has failed too, runBuild fails with the
\* fallback attempt's error, and no command is spawned after the fallback.
C5_BothFailSurfacesFallbackError ==
  \A i \in Fallbacks :
    (Failed(i) /\ job.pc # "fallback") =>
      /\ job.pc = "failed"
      /\ job.error = [kind |-> cmds[i].outcome, by |-> i, install |-> TRUE]
      /\ Len(cmds) = i

\* C5 witness: pnpm install timed out, npm install exited non-zero.
C5_Witness ==
  /\ job.pc = "failed"
  /\ \E i \in Fallbacks :
       /\ cmds[i].outcome = "exit"
       /\ cmds[i - 1].role = "primary"
       /\ cmds[i - 1].outcome = "timeout"

\* C6: once a command is reported as timed out, no process it started is
\* alive.  Refuted: only the shell is killed.
C6_TimeoutKillsEveryProcess ==
  \A i \in DOMAIN cmds :
    cmds[i].outcome = "timeout" => (cmds[i].child # "running" /\ ~cmds[i].kids)

\* C7: a command is reported as a timeout exactly when its timer fired, and
\* as an exit failure exactly when it closed with a non-zero code without
\* its timer having fired; the error runBuild fails with keeps the kind of
\* the command it comes from.
C7_TimeoutAndExitDistinct ==
  /\ \A i \in DOMAIN cmds :
       /\ cmds[i].timer = "fired" <=> cmds[i].outcome = "timeout"
       /\ (/\ cmds[i].child = "closed"
           /\ cmds[i].code \notin {0, SpawnErrno}
           /\ cmds[i].timer # "fired") => cmds[i].outcome = "exit"
       /\ cmds[i].outcome = "exit" =>
            (cmds[i].child = "closed" /\ cmds[i].code # 0)
  /\ (job.pc = "failed" /\ job.error.by # 0) =>
       /\ job.error.kind = cmds[job.error.by].outcome
       /\ job.error.kind \in {"timeout", "exit", "error"}

\* C7 witness: runBuild failed on a command that timed out, after an
\* earlier command had failed with an exit code.
C7_Witness ==
  /\ job.pc = "failed"
  /\ job.error.kind = "timeout"
  /\ \E i \in DOMAIN cmds : cmds[i].outcome = "exit" /\ cmds[i].code = 1

\* C8: once a command has closed without its timer having fired, its timer
\* is cleared and stays so: no kill signal is sent and the outcome does not
\* become a timeout.
C8_NoTimerAfterNormalClose ==
  [][\A i \in DOMAIN cmds :
       (cmds[i].child = "closed" /\ ~cmds[i].isTimedOut) =>
         /\ cmds[i].timer = "cleared"
         /\ cmds'[i].timer = "cleared"
         /\ ~cmds'[i].isTimedOut
         /\ ~cmds'[i].killSent
         /\ cmds'[i].outcome = cmds[i].outcome]_vars

\* C8 witness: a command closed normally and the job went on to spawn the
\* next one.
C8_Witness ==
  \E i \in DOMAIN cmds :
    /\ cmds[i].child = "closed"
    /\ cmds[i].timer = "cleared"
    /\ cmds[i].outcome = "resolved"
    /\ Len(cmds) > i

CommandFailureKinds == {"timeout", "exit", "error"}

Builds == {i \in DOMAIN cmds : cmds[i].role = "build"}

\* C22: whichever package manager is configured and whichever installer
\* succeeded, the build phase is one command, npm run build, spawned after
\* an install command that resolved.
C22_BuildAlwaysWithNpm ==
  /\ Cardinality(Builds) <= 1
  /\ \A i \in Builds :
       /\ cmds[i].tool = "npm run build"
       /\ i > 1
       /\ cmds[i - 1].role \in {"primary", "fallback"}
       /\ cmds[i - 1].outcome = "resolved"
  /\ job.pc \in {"build", "done"} => Builds # {}

\* C22 witness: with yarn configured, yarn install succeeded and the build
\* ran as npm run build.
C22_Witness ==
  /\ config.packageManager = "yarn"
  /\ job.pc = "done"
  /\ \E i \in Builds :
       /\ cmds[i - 1].tool = "yarn install"
       /\ cmds[i].tool = "npm run build"

\* An invocation resolves exactly when 'close' reported code 0 before the
\* timer fired.
ResolvesOnCleanClose(c) ==
  /\ c.outcome = "resolved" <=>
       (c.child = "closed" /\ c.code = 0 /\ ~c.isTimedOut)
  /\ c.outcome = "resolved" => c.timer = "cleared"

\* C23 as stated: an invocation resolves exactly on a close with code 0
\* before the timer fired, and every failure other than the time-out (exit
\* code, signal, spawn error) carries the captured stderr, or the captured
\* stdout when stderr is empty.
C23_EveryFailureCarriesOutput ==
  \A i \in DOMAIN cmds :
    /\ ResolvesOnCleanClose(cmds[i])
    /\ cmds[i].outcome \in {"exit", "error"} =>
         cmds[i].detail = ExitDetail(cmds[i].stderr, cmds[i].stdout)

\* C23 amended: an invocation resolves exactly on a close with code 0
\* before the timer fired; a close with another code or after a signal
\* rejects with the trimmed stderr, or the trimmed stdout when the trimmed
\* stderr is empty; a spawn error rejects with the message of the 'error'
\* event and no captured output; the time-out rejects with neither.
C23_CloseFailureCarriesOutput ==
  \A i \in DOMAIN cmds :
    /\ ResolvesOnCleanClose(cmds[i])
    /\ cmds[i].outcome = "exit" =>
         /\ cmds[i].child = "closed"
         /\ cmds[i].code \in {1, NoCode}
         /\ cmds[i].detail = ExitDetail(cmds[i].stderr, cmds[i].stdout)
         /\ cmds[i].detail =
              (IF \E n \in DOMAIN cmds[i].stderr : cmds[i].stderr[n] # Blank
               THEN trim(cmds[i].stderr) ELSE trim(cmds[i].stdout))
    /\ cmds[i].outcome = "error" =>
         /\ cmds[i].code = SpawnErrno
         /\ cmds[i].detail = SpawnMessage
         /\ cmds[i].stdout = <<>> /\ cmds[i].stderr = <<>>
    /\ cmds[i].outcome = "timeout" =>
         (cmds[i].isTimedOut /\ cmds[i].detail = <<>>)
    /\ (cmds[i].child = "closed" /\ ~cmds[i].isTimedOut) =>
         cmds[i].outcome \in {"resolved", "exit", "error"}

\* C23 witness: a command ended by a signal (close reports no code) whose
\* stderr holds white space only and whose stdout holds text is rejected
\* with the stdout text.
C23_Witness ==
  \E i \in DOMAIN cmds :
    /\ cmds[i].outcome = "exit"
    /\ cmds[i].code = NoCode
    /\ cmds[i].stderr = <<Blank>>
    /\ cmds[i].stdout = <<"out", Blank>>
    /\ cmds[i].detail = <<"out">>

Probes == {"whichNode", "whichNpm", "whichPnpm"}

\* C24: every invocation arms a timer of its own at spawn, with the whole
\* duration it was given (config.buildTimeoutMs for install and build,
\* whatever time earlier commands used); while its promise is pending the
\* timer is armed and not overdue, and a timer that fired did so at its
\* full duration and left the promise settled.
C24_OwnTimerBoundsEveryInvocation ==
  \A i \in DOMAIN cmds :
    /\ cmds[i].timeoutMs =
         (IF cmds[i].role \in Probes THEN ProbeTimeoutMs ELSE buildTimeoutMs)
    /\ cmds[i].age <= Duration(cmds[i].timeoutMs)
    /\ cmds[i].outcome = "pending" => cmds[i].timer = "armed"
    /\ cmds[i].timer = "fired" =>
         /\ cmds[i].outcome = "timeout"
         /\ cmds[i].age = Duration(cmds[i].timeoutMs)
    /\ cmds[i].timer # "armed" => cmds[i].outcome # "pending"
    /\ i < Len(cmds) => cmds[i].outcome = "resolved"

\* C24 witness: the install command used part of its duration and
\* succeeded; the build command then ran for the whole configured duration
\* before its own timer rejected it.
C24_Witness ==
  \E i \in DOMAIN cmds :
    /\ i > 1
    /\ cmds[i].role = "build"
    /\ cmds[i - 1].role = "primary"
    /\ cmds[i - 1].age >= 1
    /\ cmds[i].age = MaxTicks
    /\ cmds[i].outcome = "timeout"
    /\ cmds[i - 1].age + cmds[i].age > MaxTicks

WithoutManifest(w) == w.manifest \in {"absent", "unreadable", "invalid", "null"}

KnownDependency(w) ==
  \E n \in DepNames : Truthy(Spread(w.dependencies, w.devDependencies)[n])

\* C25: whatever the workspace holds, detectProjectType returns one of the
\* six labels and throws nothing, so runBuild goes on to its first command;
\* the label is generic when the manifest gives no known dependency, and
\* when there is no usable manifest and no astro or vite configuration
\* file.
C25_ClassificationNeverFails ==
  /\ ~detectProjectType(job.workspace).threw
  /\ detectProjectType(job.workspace).label \in ProjectTypes
  /\ job.error.kind # "detect"
  /\ job.pc # "idle" =>
       /\ job.pc = "whichNode"
       /\ Len(cmds) = 1
       /\ job.projectType = detectProjectType(job.workspace).label
       /\ job.projectType \in ProjectTypes
       /\ (WithoutManifest(job.workspace) /\ job.workspace.files = {}) =>
            job.projectType = "generic"
       /\ (~WithoutManifest(job.workspace) /\ ~KnownDependency(job.workspace)) =>
            job.projectType = "generic"

\* C25 witness: package.json holds the JSON text null, reading its
\* dependencies throws inside the try, no configuration file is present,
\* and runBuild has gone on with the label generic.
C25_Witness ==
  /\ job.pc = "whichNode"
  /\ job.workspace.manifest = "null"
  /\ job.workspace.files = {}
  /\ job.projectType = "generic"

\* The step of the route's catch block for request p.
CatchStep(p) == req[p].pc = "cleanup" /\ req'[p].pc = "answered"

\* C26: the catch block hands to the error handler the error it was
\* entered with, whether the removal of the workspace succeeded or failed,
\* and the answer's status is the one of that error.
C26_CleanupFailureKeepsOriginalError ==
  [][\A p \in Projects :
       CatchStep(p) =>
         /\ req'[p].error = req[p].error
         /\ req'[p].status = errorHandler(req[p].error)
         /\ req'[p].cleanupFailed => (dirs[p].exists /\ dirs'[p] = dirs[p])]_vars

\* C26 witness: a request rejected for its size (413) whose workspace
\* removal failed: the directory is still there and the answer is 413.
C26_Witness ==
  \E p \in Projects :
    /\ req[p].pc = "answered"
    /\ req[p].cleanupFailed
    /\ dirs[p].exists
    /\ req[p].error = AppError("tooLarge", 413)
    /\ req[p].status = 413

\* removeDirectory applied to d, and applied again to what it left.
Once(d) == removeDirectory(d, TRUE)
Twice(d) == removeDirectory(Once(d), TRUE)

\* C27: removeDirectory of a directory that does not exist succeeds and
\* changes nothing, and a second removal leaves what the first one left,
\* the directory tree absent; the catch block that finds its workspace
\* already gone records no cleanup failure.
C27_RemoveDirectoryIsIdempotent ==
  [][\A p \in Projects :
       /\ Twice(dirs[p]) = Once(dirs[p])
       /\ ~Once(dirs[p]).exists
       /\ RmOutcomes(Once(dirs[p])) = {TRUE}
       /\ ~dirs[p].exists => (RmOutcomes(dirs[p]) = {TRUE} /\ Once(dirs[p]) = dirs[p])
       /\ (CatchStep(p) /\ ~dirs[p].exists) =>
            (~req'[p].cleanupFailed /\ dirs'[p] = dirs[p])]_vars

\* C27 witness: the sweep removed the workspace of a request that was
\* about to run its own cleanup after the size rejection; the request's
\* removeDirectory then ran on a missing directory and succeeded.
C27_Witness ==
  \E p \in Projects :
    /\ lastSwept.name = p
    /\ lastSwept.ownerPc = "cleanup"
    /\ req[p].pc = "answered"
    /\ req[p].error.kind = "tooLarge"
    /\ ~req[p].cleanupFailed
    /\ ~dirs[p].exists

\* The place of a candidate name in the fixed order.
Priority(d) == CHOOSE i \in DOMAIN possibleDistDirs : possibleDistDirs[i] = d

\* C20: when runBuild has returned, its distDir is a candidate name that is
\* a directory of the workspace root, no name before it in the order dist,
\* build, out, .next is a directory, and resolving again over the same
\* workspace gives the same name; when the build command succeeded and
\* runBuild failed for want of an output, no candidate is a directory.
C20_ResolverReturnsFirstCandidate ==
  /\ possibleDistDirs = <<"dist", "build", "out", ".next">>
  /\ job.pc = "done" =>
       /\ job.distDir \in Candidates
       /\ job.outputs[job.distDir] = "directory"
       /\ \A d \in Candidates :
            Priority(d) < Priority(job.distDir) => job.outputs[d] # "directory"
       /\ job.distDir =
            FirstExisting(possibleDistDirs,
                          {d \in Candidates : directoryExists(job.outputs, d)})
  /\ (job.pc = "failed" /\ job.error.kind = "noArtifact") =>
       \A d \in Candidates : job.outputs[d] # "directory"

\* C20 witness: dist is a regular file, build and out are both
\* directories, and runBuild returned build.
C20_Witness ==
  /\ job.pc = "done"
  /\ job.outputs["dist"] = "file"
  /\ job.outputs["build"] = "directory"
  /\ job.outputs["out"] = "directory"
  /\ job.distDir = "build"

(***************************************************************************)
(* Claims checked under SpecTwo.                                           *)
(***************************************************************************)
\* A step of request p: its handler or one of its write promises moved.
StepOf(p) == req'[p] # req[p] \/ wst'[p] # wst[p]

\* C13: no step of a request (validation, staging, size check, failure
\* cleanup) creates, modifies or deletes anything under the workspace
\* directory of the other request.
C13_RequestsDoNotInterfere ==
  [][\A p \in Projects : \A q \in Projects \ {p} :
       StepOf(p) => dirs'[q] = dirs[q]]_vars

\* C13 witness: one request has failed and removed its workspace while the
\* other, still staging, has its directory and the file it wrote.
C13_Witness ==
  \E p \in Projects : \E q \in Projects \ {p} :
    /\ req[p].pc = "answered" /\ req[p].projectDir /\ ~dirs[p].exists
    /\ req[q].pc = "staging"
    /\ dirs[q].exists
    /\ "package.json" \in dirs[q].content

\* A key that is an absolute path or has a parent-directory segment.
EscapingKey(k) ==
  \/ Split(k)[1] = "" /\ Len(Split(k)) > 1
  \/ \E i \in DOMAIN Split(k) : Split(k)[i] = ".."

Submitted(p) == req[p].pc # "new"
Accepted(p) == req[p].projectDir

\* C14: a request whose file set holds an escaping key is rejected (400, or
\* 507 by the disk check before it) with nothing created or written for
\* it: no project directory, no write started, for any of its entries.
C14_EscapingKeyRejectedBeforeStaging ==
  \A p \in Projects :
    (Submitted(p) /\ \E k \in req[p].files : EscapingKey(k)) =>
      /\ req[p].pc \in {"validate", "answered"}
      /\ ~Accepted(p)
      /\ dirs[p] = NoDir
      /\ \A k \in Keys : wst[p][k] = "none"
      /\ req[p].pc = "answered" => req[p].status \in {400, 507}

\* C14 witness: a file set with a valid package.json and a key that climbs
\* into the sibling workspace was answered 400 while the sibling request
\* was staging; nothing of it was written.
C14_Witness ==
  \E p \in Projects : \E q \in Projects \ {p} :
    /\ req[p].pc = "answered" /\ req[p].status = 400
    /\ "package.json" \in req[p].files
    /\ \E k \in req[p].files : includesDotDot(k)
    /\ dirs[p] = NoDir
    /\ req[q].pc = "staging" /\ dirs[q].exists

\* C15: every key of an accepted file set equals its normalized form, and
\* no two distinct keys of an accepted file set denote the same file.
\* Refuted: the rule rejects a non-normalized key only when the key has no
\* '/', so './package.json' is accepted beside 'package.json'.
C15_AcceptedKeysAreNormalized ==
  \A p \in Projects :
    Accepted(p) =>
      /\ \A k \in req[p].files : normalize(k) = k
      /\ \A k1, k2 \in req[p].files :
           FullPath(p, k1) = FullPath(p, k2) => k1 = k2

\* C16: when staging has completed successfully, the workspace holds one
\* file per submitted key, at that key's path, with the submitted text (the
\* serialized form for an object), and no other file.  Refuted: two
\* accepted keys can spell the same path, and the file then holds the text
\* of whichever write came last.
C16_StagedWorkspaceIsTheFileSet ==
  \A p \in Projects :
    req[p].pc = "size" =>
      /\ \A k \in req[p].files :
           /\ RelativeName(FullPath(p, k)) \in dirs[p].content
           /\ dirs[p].data[RelativeName(FullPath(p, k))] = fileContent(Value(k))
      /\ Cardinality(dirs[p].content \cap Files) = Cardinality(req[p].files)

\* The usage a request measured, in hundredths of a percent.
Measured(p) == checkDiskSpace(req[p].statfs).usagePercent

\* C18: a request whose measured disk usage is above the ceiling fails
\* with the 507 quota error at once: no project id or directory is
\* allocated, nothing is created or written, no command is run; and a
\* request answered with the quota error has none of these.
C18_DiskFullRejectedBeforeAllocation ==
  [][\A p \in Projects :
       /\ (/\ Validate(p)
            /\ req[p].statfs.ok
            /\ Measured(p) > diskCeiling * 100) =>
             /\ req'[p].pc = "answered"
             /\ req'[p].error = AppError("quota", 507)
             /\ req'[p].status = 507
             /\ ~req'[p].projectDir
             /\ dirs' = dirs /\ wst' = wst /\ cmds' = cmds
       /\ req[p].error.kind = "quota" =>
             /\ ~req[p].projectDir
             /\ dirs[p] = NoDir
             /\ \A k \in Keys : wst[p][k] = "none"
             /\ cmds = <<>>
    ]_vars

\* C18 witness: a request with an acceptable file set was answered 507
\* while the other request, measured below the ceiling, was staging.
C18_Witness ==
  \E p \in Projects : \E q \in Projects \ {p} :
    /\ req[p].pc = "answered" /\ req[p].status = 507
    /\ req[p].files = {"package.json", "src/main.jsx"}
    /\ dirs[p] = NoDir
    /\ req[q].pc = "staging"

\* A reading below the ceiling.
BelowCeiling == [ok |-> TRUE, blocks |-> 100000, bavail |-> 11000]

\* C19: when statfs is unavailable checkDiskSpace yields null, and the
\* request goes on exactly as it would with a reading below the ceiling:
\* same rejection by validation or same allocation of the workspace, and
\* never the quota error.
C19_NoMeasurementIsNoRejection ==
  [][\A p \in Projects :
       (Validate(p) /\ ~req[p].statfs.ok) =>
         /\ checkDiskSpace(req[p].statfs).isNull
         /\ req'[p].error.kind # "quota"
         /\ req'[p] = Validated([req[p] EXCEPT !.statfs = BelowCeiling])
    ]_vars

\* C19 witness: on a host without the measurement, one request has staged
\* its files and reached the size check, another was rejected by
\* validation (400), not by the disk check.
C19_Witness ==
  /\ ~config.hostStatfs
  /\ \E p \in Projects : \E q \in Projects \ {p} :
       /\ req[p].pc = "size" /\ dirs[p].exists
       /\ req[q].pc = "answered" /\ req[q].status = 400

\* The class of a request's failure, by the check that raised it: the disk
\* ceiling and the size limit are quota failures, the schema and the
\* project-structure and file-count checks are validation failures, a failed file-system
\* call and the ReferenceError of line 83 are internal failures.
FailureClass(kind) ==
  CASE kind \in {"quota", "tooLarge"} -> "quota"
    [] kind \in {"validation", "structure", "tooManyFiles"} -> "validation"
    [] OTHER -> "internal"

FailedRequests == {p \in Projects : req[p].pc = "answered" /\ req[p].error # NoError}

\* C28: the status of an error answer identifies the class of the failure:
\* two failed requests of different classes are answered with different
\* statuses, and an error of a class other than internal carries a status
\* code of its own.  Refuted: validateProjectStructure throws a plain Error,
\* which is answered 500 like an internal failure.
C28_StatusIdentifiesFailureClass ==
  /\ \A p, q \in FailedRequests :
       FailureClass(req[p].error.kind) # FailureClass(req[q].error.kind) =>
         req[p].status # req[q].status
  /\ \A p \in FailedRequests :
       FailureClass(req[p].error.kind) # "internal" => req[p].error.status # 0

\* A body the payload schema rejects: no entry in files, or a key that
\* leaves the workspace.
InvalidPayload(files) == files = {} \/ \E k \in files : EscapingKey(k)

\* The validation step of request p, from the awaited disk reading to the
\* first rejection or to the project id.
ValidationStep(p) == req[p].pc = "validate" /\ req'[p].pc # "validate"

\* C29 as stated: a request whose body fails payload validation is
\* answered 400 and gets no workspace.
C29_InvalidPayloadAnswered400 ==
  \A p \in Projects :
    (req[p].pc \notin {"new", "validate"} /\ InvalidPayload(req[p].files)) =>
      /\ req[p].pc = "answered"
      /\ req[p].status = 400
      /\ ~req[p].projectDir
      /\ ~dirs[p].exists

\* C29 amended: a request whose body fails payload validation is answered
\* with success false and gets no project id and no workspace; its status
\* is 400, unless the disk reading taken before the validation is above
\* the ceiling, in which case it is 507.
C29_InvalidPayloadRejectedUnstaged ==
  [][\A p \in Projects :
       (ValidationStep(p) /\ InvalidPayload(req[p].files)) =>
         /\ req'[p].pc = "answered"
         /\ req'[p].status =
              (IF DiskFull(checkDiskSpace(req[p].statfs)) THEN 507 ELSE 400)
         /\ errorResponse(req'[p].error) =
              [success |-> FALSE, status |-> req'[p].status]
         /\ ~req'[p].projectDir
         /\ ~dirs[p].exists /\ dirs' = dirs
         /\ wst' = wst]_vars

\* C29 witness: a body without any file entry was answered 400 and no
\* workspace exists for it.
C29_Witness ==
  \E p \in Projects :
    /\ req[p].pc = "answered"
    /\ req[p].files = {}
    /\ req[p].error = AppError("validation", 400)
    /\ req[p].status = 400
    /\ ~req[p].projectDir
    /\ ~dirs[p].exists

\* A file set that no check other than a count can reject: it has an
\* entry, every key stays inside the workspace and a main configuration
\* file is among them.
CountOnly(files) ==
  /\ files # {}
  /\ \A k \in files : SafeFilePath(k)
  /\ hasMainConfig(files)

\* C30: a file set is rejected on its count exactly when the number of its
\* entries exceeds config.maxFiles, whatever that value is.  Refuted: the
\* schema rejects a set above its own fixed limit although config.maxFiles
\* admits it.
C30_RejectedExactlyAboveMaxFiles ==
  \A p \in Projects :
    (/\ req[p].pc \notin {"new", "validate"}
     /\ req[p].error.kind # "quota"
     /\ CountOnly(req[p].files)) =>
      (Accepted(p) <=> Cardinality(req[p].files) <= config.maxFiles)

\* The place of a command in runBuild's fixed sequence.
Rank(role) ==
  CASE role = "whichNode" -> 1
    [] role = "whichNpm" -> 2
    [] role = "whichPnpm" -> 3
    [] role = "primary" -> 4
    [] role = "fallback" -> 5
    [] role = "build" -> 6

Installs == {i \in DOMAIN cmds : cmds[i].role \in {"primary", "fallback"}}

RouteStepsInOrder ==
  \A p \in Projects :
    /\ Accepted(p) =>
         /\ req[p].pc \notin {"new", "validate"}
         /\ ~SchemaError(req[p].files)
         /\ hasMainConfig(req[p].files)
         /\ Cardinality(req[p].files) <= config.maxFiles
    /\ req[p].pc = "size" => \A k \in req[p].files : wst[p][k] = "done"
    /\ req[p].passedSize => \A k \in req[p].files : wst[p][k] = "done"
    /\ req[p].pc \in {"mkdir", "staging", "size"} => req[p].error = NoError
    /\ cmds = <<>>

\* C32: once a command's promise has settled, no later event (close, spawn
\* error, timer, output) changes its outcome or its detail; the outcome is
\* one of resolved, exit, error (failed) or timeout, and a command whose
\* process has closed is settled.
C32_SettledOutcomeIsFinal ==
  [][\A i \in DOMAIN cmds :
       /\ cmds[i].outcome \in {"pending", "resolved", "exit", "error", "timeout"}
       /\ cmds[i].child = "closed" => cmds[i].outcome # "pending"
       /\ cmds[i].outcome # "pending" =>
            /\ i \in DOMAIN cmds'
            /\ cmds'[i].outcome = cmds[i].outcome
            /\ cmds'[i].detail = cmds[i].detail]_vars

\* C32 witness: the timer fired after the process had exited with code 0
\* and before its close event; the close event then arrived and the outcome
\* is still the time-out.
C32_Witness ==
  \E i \in DOMAIN cmds :
    /\ cmds[i].outcome = "timeout"
    /\ cmds[i].child = "closed"
    /\ cmds[i].code = 0
    /\ ~cmds[i].killSent

\* A command has a live process in the workspace: its shell, or a process
\* its shell started.
Alive(i) == cmds[i].child = "running" \/ cmds[i].kids

\* C33: no two commands of a runBuild have a live process at the same time;
\* stated for the case the claim singles out, a command spawned after the
\* time-out of the one before it.  Refuted: the time-out is reported after
\* killing the shell only, and the npm fallback is spawned while processes
\* started by pnpm install still run in the workspace.
C33_NoCommandBesideTimedOutOne ==
  \A i, j \in DOMAIN cmds :
    (i < j /\ cmds[i].outcome = "timeout") => ~(Alive(i) /\ Alive(j))

\* The same with the install command itself: pnpm install was reported
\* timed out, a process it started is alive, and the fallback's shell runs.
FallbackBesideTimedOutInstall ==
  \E i, j \in DOMAIN cmds :
    /\ cmds[i].role = "primary" /\ cmds[i].outcome = "timeout" /\ cmds[i].kids
    /\ cmds[j].role = "fallback" /\ cmds[j].child = "running"

ToolChecks == {i \in DOMAIN cmds : cmds[i].role \in {"whichNode", "whichNpm"}}

C34_SweepSurvivesVanishedEntry ==
  \A s \in Sweepers :
    (sweep[s].pc = "done" /\ sweep[s].failed = {}) =>
      \A e \in sweep[s].todo \cap Projects : e \in sweep[s].vanished

\* The state C34's refutation ends in: the sweep stopped at an entry that a
\* request's own cleanup had removed, and an expired workspace it had
\* listed is still there, never examined.
SweepStoppedAtVanishedEntry ==
  \E s \in Sweepers, e \in Projects :
    /\ sweep[s].pc = "done"
    /\ sweep[s].vanished # {}
    /\ e \in sweep[s].todo \ sweep[s].vanished
    /\ dirs[e].exists
    /\ Expired(sweep[s].now0 - dirs[e].mtime, config.previewMaxAgeMs)

\* The step in which the route rejects request p before allocating a
\* project id.
RejectionStep(p) == req[p].pc = "validate" /\ req'[p].pc = "answered"

EarlyRejections == {"quota", "validation", "structure", "tooManyFiles"}

\* C35: a request rejected by the disk check, the payload schema, the
\* project-structure check or the file-count check is answered in the step
\* that rejects it, without a project id, and that step creates, writes and
\* removes nothing under the previews root; every request that leaves the
\* validation without a project id was rejected by one of these checks.
C35_EarlyRejectionTouchesNothing ==
  [][\A p \in Projects :
       /\ RejectionStep(p) =>
            /\ req'[p].error.kind \in EarlyRejections
            /\ ~req'[p].projectDir
            /\ dirs' = dirs
            /\ wst' = wst
       /\ (ValidationStep(p) /\ Rejection(req[p]) # NoError) => RejectionStep(p)
       /\ (req[p].pc = "answered" /\ ~req[p].projectDir) =>
            /\ req[p].error.kind \in EarlyRejections
            /\ dirs'[p] = dirs[p]
            /\ \A k \in Keys : wst'[p][k] = "none"]_vars

\* C35 witness: a request rejected by the file-count check has been
\* answered 400 without a project id; it has no directory, and the
\* workspace another request left behind is still in place.
C35_Witness ==
  \E p \in Projects :
    /\ req[p].pc = "answered"
    /\ req[p].error = AppError("tooManyFiles", 400)
    /\ ~req[p].projectDir
    /\ ~dirs[p].exists
    /\ \A k \in Keys : wst[p][k] = "none"
    /\ dirs[Leftover].exists

\* The names a manifest declares in dependencies or devDependencies.
Declared(w) ==
  {n \in DepNames :
     w.dependencies[n] # Undefined \/ w.devDependencies[n] # Undefined}

\* The first match of the declared names in the fixed order.
FirstDeclared(w) ==
  IF "astro" \in Declared(w) THEN "astro"
  ELSE IF "vite" \in Declared(w) \/ "@vitejs/plugin-react" \in Declared(w)
  THEN "vite"
  ELSE IF "react" \in Declared(w) THEN "react"
  ELSE IF "vue" \in Declared(w) THEN "vue"
  ELSE IF "svelte" \in Declared(w) THEN "svelte"
  ELSE "generic"

\* C37: a workspace whose manifest can be read (an object, or any other
\* JSON value but null) is labelled by the first declared name in the order
\* astro, vite or @vitejs/plugin-react, react, vue, svelte, else generic,
\* whatever configuration files it holds; a workspace whose manifest is
\* absent or cannot be read or parsed is labelled by its configuration
\* files.  Refuted: a name declared with an empty version string is not
\* counted.
C37_LabelIsFirstDeclaredName ==
  job.pc # "idle" =>
    IF job.workspace.manifest \in {"object", "scalar"}
    THEN job.projectType = FirstDeclared(job.workspace)
    ELSE job.projectType = LabelOfConfigFiles(job.workspace.files)

\* What does hold: the same with a name counted only when the value that
\* devDependencies, or else dependencies, gives it is a non-empty string.
LabelIsFirstTruthyName ==
  job.pc # "idle" =>
    IF job.workspace.manifest \in {"object", "scalar"}
    THEN job.projectType =
           LabelOfDeps(Spread(job.workspace.dependencies,
                              job.workspace.devDependencies))
    ELSE job.projectType = LabelOfConfigFiles(job.workspace.files)


(***************************************************************************)
(* The health check alone, over every host and package manager.            *)
(***************************************************************************)
InitHealth ==
  /\ now = 0
  /\ dirs = [p \in Projects |-> NoDir]
  /\ req = [p \in Projects |-> NewReq]
  /\ wst = [p \in Projects |-> [k \in Keys |-> "none"]]
  /\ sweep = [s \in Sweepers |-> IdleSweep]
  /\ lastSwept = NoRemoval
  /\ job = IdleJob
  /\ cmds = <<>>
  /\ inject = IdleInject
  /\ config \in {c \in Configs : c.previewMaxAgeMs = 1}
  /\ health \in {[IdleHealth EXCEPT !.host = h] : h \in Hosts}

NextHealth ==
  \/ HealthStart
  \/ HealthProbe
  \/ HealthToolsFound
  \/ HealthAnswer

SpecHealth == InitHealth /\ [][NextHealth]_vars

\* What the claim asks of the host a health check ran on.
DirectoriesExist ==
  \A d \in HealthDirs : health.host.paths[d] = "directory"

RequiredTools ==
  {"node", "npm"} \cup (IF config.packageManager \in {"pnpm", "yarn"}
                        THEN {config.packageManager} ELSE {})

DiskUnknownOrBelowCeiling ==
  \/ ~health.stats.ok
  \/ checkDiskSpace(health.stats).usagePercent < 95 * 100

\* C38: GET /health is answered 200 with status 'healthy' exactly when the
\* previews and logs directories exist, node, npm and the configured pnpm
\* or yarn are found, and the disk usage checkDiskSpace reports is unknown
\* or below 95%; every other answer is 503 with status 'degraded'.
C38_HealthyExactlyWhenAllChecksPass ==
  health.pc = "answered" =>
    IF /\ DirectoriesExist
       /\ RequiredTools \subseteq health.host.tools
       /\ DiskUnknownOrBelowCeiling
    THEN health.status = 200 /\ health.body = "healthy"
    ELSE health.status = 503 /\ health.body = "degraded"

\* C38 witness: both directories exist and node, npm and the configured
\* yarn are found, the disk is reported at 95.00%, and the answer is 503
\* 'degraded'.
C38_Witness ==
  /\ health.pc = "answered"
  /\ DirectoriesExist
  /\ config.packageManager = "yarn"
  /\ RequiredTools \subseteq health.host.tools
  /\ health.stats.ok
  /\ health.checks.diskSpace.usagePercent = 95 * 100
  /\ health.status = 503
  /\ health.body = "degraded"

\* The other side: a host without statistics, with everything else in
\* place, is answered 200 'healthy'.
HealthyWithoutStatistics ==
  /\ health.pc = "answered"
  /\ ~health.stats.ok
  /\ health.status = 200
  /\ health.body = "healthy"


(***************************************************************************)
(* runBuild of the base-URL variant alone, over every pair of              *)
(* configuration files a project can bring and both preview ids.           *)
(***************************************************************************)
InitInject ==
  /\ now = 0
  /\ dirs = [p \in Projects |-> NoDir]
  /\ req = [p \in Projects |-> NewReq]
  /\ wst = [p \in Projects |-> [k \in Keys |-> "none"]]
  /\ sweep = [s \in Sweepers |-> IdleSweep]
  /\ lastSwept = NoRemoval
  /\ job = IdleJob
  /\ cmds = <<>>
  /\ health = IdleHealth
  /\ config \in {c \in Configs : /\ c.previewMaxAgeMs = 1
                                 /\ c.hostStatfs
                                 /\ c.packageManager = "pnpm"}
  /\ inject \in {[IdleInject EXCEPT !.previewId = id, !.files = f,
                                    !.before = f] :
                   id \in Projects, f \in ProjectConfigs}

NextInject ==
  \/ InjectBaseUrl
  \/ BuildWithPnpm
  \/ BuildWithNpm
  \/ RestoreConfig

SpecInject == InitInject /\ [][NextInject]_vars

Finished == inject.pc \in {"done", "failed"}

\* C39: once runBuild has finished, with the build succeeded or failed,
\* every configuration file it wrote to holds the content it had before
\* the call, and every configuration file absent before the call is still
\* absent.
C39_ConfigRestoredAndNothingCreated ==
  Finished =>
    /\ \A f \in inject.written : inject.files[f] = inject.before[f]
    /\ \A f \in ConfigPaths :
         ~inject.before[f].exists => ~inject.files[f].exists

\* The state the counterexample ends in: an Astro project without
\* vite.config.js, whose astro.config.mjs keeps the injected base URL and
\* which has gained a vite.config.js holding the Astro configuration.
AstroConfigLeftModified ==
  /\ Finished
  /\ ~inject.before[viteConfigPath].exists
  /\ inject.files[astroConfigPath].base = inject.previewId
  /\ inject.files[viteConfigPath] = inject.before[astroConfigPath]

\* What holds of the variant: a project with a vite.config.js has every
\* configuration file back as it was, whatever the build did.
ViteConfigRestored ==
  (Finished /\ inject.before[viteConfigPath].exists) =>
    inject.files = inject.before

=============================================================================
